---- MODULE Spec2Model ----
(***************************************************************************)
(* Model of the credential manager of the container executor               *)
(* (depot/containerstore/credmanager.go): the rotation-period policy and   *)
(* the supervision loop returned by credManager.Runner.                    *)
(***************************************************************************)
EXTENDS Integers, Sequences, FiniteSets, TLC

(***************************************************************************)
(* time.Duration: a signed 64-bit count of nanoseconds.  The values of     *)
(* interest (4h = 14 400 000 000 000 ns) do not fit a 32-bit integer, so a *)
(* Duration is kept as a sign and a magnitude of three decimal limbs of    *)
(* six digits each: value = (-1)^neg * (hi*10^12 + mid*10^6 + lo).         *)
(* Zero is always kept with neg = FALSE, so equal durations are equal      *)
(* records.  Arithmetic wraps at 64 bits as Go's does.                     *)
(***************************************************************************)
Limb == 1000 * 1000

MagLT(a, b) ==
    \/ a[1] < b[1]
    \/ a[1] = b[1] /\ a[2] < b[2]
    \/ a[1] = b[1] /\ a[2] = b[2] /\ a[3] < b[3]

MagAdd(a, b) ==
    LET lo  == a[3] + b[3]
        mid == a[2] + b[2] + (lo \div Limb)
        hi  == a[1] + b[1] + (mid \div Limb)
    IN  <<hi, mid % Limb, lo % Limb>>

\* a - b for magnitudes with b <= a
MagSub(a, b) ==
    LET lo  == a[3] - b[3]
        b1  == IF lo < 0 THEN 1 ELSE 0
        mid == a[2] - b[2] - b1
        b2  == IF mid < 0 THEN 1 ELSE 0
        hi  == a[1] - b[1] - b2
    IN  <<hi, mid + b2 * Limb, lo + b1 * Limb>>

\* n * a for a small natural n
MagMul(n, a) ==
    LET lo  == n * a[3]
        mid == n * a[2] + (lo \div Limb)
        hi  == n * a[1] + (mid \div Limb)
    IN  <<hi, mid % Limb, lo % Limb>>

\* floor(a / n) for a small positive n
MagQuo(a, n) ==
    LET t2 == (a[1] % n) * Limb + a[2]
        t3 == (t2 % n) * Limb + a[3]
    IN  <<a[1] \div n, t2 \div n, t3 \div n>>

MagZero == <<0, 0, 0>>
MagMaxInt64 == <<9223372, 36854, 775807>>
MagMinInt64 == <<9223372, 36854, 775808>>
MagTwoTo64  == <<18446744, 73709, 551616>>

Dur(neg, mag) == [neg |-> neg /\ mag # MagZero, mag |-> mag]

\* two's-complement wrap-around of an out-of-range result
Wrap64(d) ==
    IF ~d.neg /\ MagLT(MagMaxInt64, d.mag) THEN Dur(TRUE, MagSub(MagTwoTo64, d.mag))
    ELSE IF d.neg /\ MagLT(MagMinInt64, d.mag) THEN Dur(FALSE, MagSub(MagTwoTo64, d.mag))
    ELSE d

DurNeg(d) == Dur(~d.neg, d.mag)

DurLT(a, b) ==
    IF a.neg # b.neg THEN a.neg
    ELSE IF a.neg THEN MagLT(b.mag, a.mag)
    ELSE MagLT(a.mag, b.mag)

DurGT(a, b) == DurLT(b, a)

DurAdd(a, b) ==
    Wrap64(IF a.neg = b.neg THEN Dur(a.neg, MagAdd(a.mag, b.mag))
           ELSE IF MagLT(a.mag, b.mag) THEN Dur(b.neg, MagSub(b.mag, a.mag))
           ELSE Dur(a.neg, MagSub(a.mag, b.mag)))

DurSub(a, b) == DurAdd(a, Dur(~b.neg, b.mag))

\* Go's integer division truncates toward zero
DurQuo(a, n) == Dur(a.neg, MagQuo(a.mag, n))

DurMul(n, d) == Wrap64(Dur(d.neg, MagMul(n, d.mag)))

\* a Duration of n nanoseconds, for a small integer n
Ns(n) == IF n < 0 THEN Dur(TRUE, <<0, 0, -n>>) ELSE Dur(FALSE, <<0, 0, n>>)

Nanosecond  == Ns(1)
Microsecond == DurMul(1000, Nanosecond)
Millisecond == DurMul(1000, Microsecond)
Second      == DurMul(1000, Millisecond)
Minute      == DurMul(60, Second)
Hour        == DurMul(60, Minute)

MaxDuration == Dur(FALSE, MagMaxInt64)
MinDuration == Dur(TRUE, MagMinInt64)

(***************************************************************************)
(* The rotation-period policy.                                             *)
(***************************************************************************)
\* a slip: the fixed 30 minute margin of long-lived certificates is lost
calculateCredentialRotationPeriod_AlwaysEighth(validityPeriod) ==
    DurSub(validityPeriod, DurQuo(validityPeriod, 8))

calculateCredentialRotationPeriod(validityPeriod) ==
    IF DurGT(validityPeriod, DurMul(4, Hour))
    THEN DurSub(validityPeriod, DurMul(30, Minute))
    ELSE LET eighth == DurQuo(validityPeriod, 8)
         IN  DurSub(validityPeriod, eighth)

(***************************************************************************)
(* Bounds of the model.                                                    *)
(***************************************************************************)
NumHandlers   == 2   \* len(c.handlers)
MaxRotations  == 2   \* firings of the rotation timer in one run
MaxSignals    == 1   \* signals delivered to one run
MaxSmallNs    == 20  \* validity periods of -MaxSmallNs..MaxSmallNs ns (and around 4h)
MaxHalfHours  == 48  \* validity periods of 0..MaxHalfHours half-hours

MaxRoutes     == 2   \* internal routes of a container snapshot
MaxStepSignals == 2  \* signals delivered to one run of a step or of the reporter
MaxReports    == 2   \* firings of the reporter's timer in one run
Handlers == 1..NumHandlers

VARIABLES
    validityPeriod, \* c.validityPeriod
    nodeInfo,       \* what node.Info() returns now (owned by the container store)
    now,            \* c.clock: ticks elapsed
    signals,        \* signals pending on the signals channel
    sent,           \* signals delivered so far
    timer,          \* regenCertTimer
    rotations,      \* firings of regenCertTimer so far
    pc,             \* position of the Runner function
    container,      \* local: initialContainer / container
    creds,          \* local: creds / cred
    idx,            \* local: position of the range over c.handlers
    cycle,          \* generation cycles started (calls of generateCreds)
    ready,          \* number of close(ready) executed
    result,         \* value returned by the Runner function
    metrics,        \* counters of the metron client fake
    log,            \* calls received by the collaborators, in order
    rpIn, rpOut, rpPc, \* a call of calculateCredentialRotationPeriod
    gcIn, gcGuid, gcOut, gcPc,  \* a call of generateCreds: container, certGUID, result
    dirPc,          \* position of CreateCredDir / RemoveCredDir
    dirIdx,         \* position of their range over c.handlers
    dirCalls,       \* CreateDir / RemoveDir calls received by the handlers, in order
    dirMounts,      \* CreateCredDir local: mounts
    dirEnvs,        \* CreateCredDir local: envs
    dirErrs,        \* RemoveCredDir local: err.Errors
    dirRet,         \* what the call returned
    rsPc,           \* position of readinessHealthCheckStep.Run
    rsCheck,        \* the until-ready check's process (ifrit.Background)
    rsSignals,      \* signals pending on Run's signals channel
    rsSent,         \* signals delivered to Run so far
    rsReady,        \* number of close(ready) executed by Run
    rsResult,       \* value returned by Run
    rsLog,          \* what Run did to its collaborators, in order
    hcPc,           \* position of healthCheckStep.Run
    hcHasLiveness,  \* step.livenessCheck != nil
    hcStartup,      \* the startup check's process
    hcLiveness,     \* the liveness check's process
    hcWatcher,      \* position of the goroutine watching the liveness check
    hcSignals,      \* signals pending on Run's signals channel
    hcSent,         \* signals delivered to Run so far
    hcReady,        \* number of close(ready) executed by Run
    hcResult,       \* value returned by Run
    hcLog,          \* what Run did to its collaborators, in order
    repPc,          \* position of Reporter.Run
    repTimer,       \* timer
    repSignals,     \* signals pending on Run's signals channel
    repSent,        \* signals delivered to Run so far
    repFires,       \* firings of timer so far
    repReady,       \* number of close(ready) executed by Run
    repResult,      \* value returned by Run
    repLog          \* calls received by the executor source, the metron client
                    \* and the logger, in order

envVars  == <<validityPeriod, nodeInfo, now, signals, sent, timer, rotations>>
loopVars == <<pc, container, creds, idx, cycle, ready, result, metrics, log>>
rpVars   == <<rpIn, rpOut, rpPc>>
gcVars   == <<gcIn, gcGuid, gcOut, gcPc>>
dirVars  == <<dirPc, dirIdx, dirCalls, dirMounts, dirEnvs, dirErrs, dirRet>>
rsVars   == <<rsPc, rsCheck, rsSignals, rsSent, rsReady, rsResult, rsLog>>
hcVars   == <<hcPc, hcHasLiveness, hcStartup, hcLiveness, hcWatcher, hcSignals, hcSent,
              hcReady, hcResult, hcLog>>
repVars  == <<repPc, repTimer, repSignals, repSent, repFires, repReady, repResult, repLog>>
stepVars == <<rsVars, hcVars, repVars>>
otherVars == <<rpVars, gcVars, dirVars, stepVars>>
vars     == <<envVars, loopVars, otherVars>>

(***************************************************************************)
(* Errors.                                                                 *)
(***************************************************************************)
Running      == [kind |-> "running",  at |-> 0]   \* the function has not returned
NilErr       == [kind |-> "nil",      at |-> 0]
GenErr(i)    == [kind |-> "generate", at |-> i]   \* generateCredForSAN call i failed
UpdateErr(k) == [kind |-> "update",   at |-> k]   \* handler k's Update failed
CloseErr(k)  == [kind |-> "close",    at |-> k]   \* handler k's Close failed

\* what one call of generateCreds can do: succeed, or fail in its first or
\* second generateCredForSAN (key generation, serial number, signing, PEM)
GenOutcomes == {NilErr, GenErr(1), GenErr(2)}

(***************************************************************************)
(* Container snapshots.                                                    *)
(***************************************************************************)
Guids == {"instance-guid"}

\* internalroutes.InternalRoute
Route(hostname) == [Hostname |-> hostname]

Info(guid, internalIP, externalIP, routes) ==
    [Guid |-> guid, InternalIP |-> internalIP, ExternalIP |-> externalIP,
     InternalRoutes |-> routes, OrganizationalUnit |-> <<"app:guid">>]

Infos(guid) ==
    { Info(guid, "10.0.0.5", "192.168.1.1", <<>>),
      Info(guid, "", "192.168.1.1", <<Route("a.apps.internal")>>),
      Info(guid, "", "", <<Route("a.apps.internal"), Route("b.apps.internal")>>) }

NoContainer == Info("", "", "", <<>>)

(***************************************************************************)
(* Certificate factory.                                                    *)
(***************************************************************************)
ValidIPs == {"10.0.0.5", "192.168.1.1"}

\* net.ParseIP: the parsed address, or nil for text that is no address
ParseIP(s) == IF s \in ValidIPs THEN [ip |-> s] ELSE [ip |-> "<nil>"]

ClockNow == [tick |-> now, plus |-> Ns(0)]
TimeAdd(t, d) == [tick |-> t.tick, plus |-> DurAdd(t.plus, d)]

RECURSIVE Hostnames(_)
Hostnames(routes) ==
    IF routes = <<>> THEN <<>>
    ELSE <<Head(routes).Hostname>> \o Hostnames(Tail(routes))

\* a slip: the routes' hostnames are left out of the DNS names
createCertificateTemplate_NoRoutes(guid, certSAN, notBefore, notAfter) ==
    [CommonName         |-> guid,
     OrganizationalUnit |-> certSAN.OrganizationalUnits,
     IPAddresses        |-> IF certSAN.IPAddress = "" THEN <<>>
                            ELSE <<ParseIP(certSAN.IPAddress)>>,
     DNSNames           |-> <<guid>>,
     NotBefore          |-> notBefore,
     NotAfter           |-> notAfter]

createCertificateTemplate(guid, certSAN, notBefore, notAfter) ==
    [CommonName         |-> guid,
     OrganizationalUnit |-> certSAN.OrganizationalUnits,
     IPAddresses        |-> IF certSAN.IPAddress = "" THEN <<>>
                            ELSE <<ParseIP(certSAN.IPAddress)>>,
     DNSNames           |-> <<guid>> \o Hostnames(certSAN.InternalRoutes),
     NotBefore          |-> notBefore,
     NotAfter           |-> notAfter]

\* c.CaCert
CaCert == [CommonName |-> "instanceIdentityCA"]

\* the Credential of a successful generateCredForSAN: the PEM bundle is the
\* signed leaf followed by the CA certificate
generateCredForSAN(certSAN, certGUID) ==
    LET startValidity == ClockNow
        template == createCertificateTemplate(certGUID, certSAN, startValidity,
                                              TimeAdd(startValidity, validityPeriod))
    IN  [Cert |-> <<template, CaCert>>, Key |-> "RSA PRIVATE KEY"]

certificateSAN(ip, routes, ous) ==
    [IPAddress |-> ip, InternalRoutes |-> routes, OrganizationalUnits |-> ous]

\* a slip: the C2C certificate is issued without the generation identifier
generateCreds_C2CAnonymous(cont, certGUID) ==
    LET ipForCert == IF cont.InternalIP = "" THEN cont.ExternalIP ELSE cont.InternalIP
    IN  [InstanceIdentityCredential |->
            generateCredForSAN(certificateSAN(ipForCert, <<>>, cont.OrganizationalUnit),
                               certGUID),
         C2CCredential |->
            generateCredForSAN(certificateSAN("", cont.InternalRoutes,
                                              cont.OrganizationalUnit), "")]

\* the Credentials of a successful generateCreds
generateCreds(cont, certGUID) ==
    LET ipForCert == IF cont.InternalIP = "" THEN cont.ExternalIP ELSE cont.InternalIP
    IN  [InstanceIdentityCredential |->
            generateCredForSAN(certificateSAN(ipForCert, <<>>, cont.OrganizationalUnit),
                               certGUID),
         C2CCredential |->
            generateCredForSAN(certificateSAN("", cont.InternalRoutes,
                                              cont.OrganizationalUnit), certGUID)]

\* Credentials{}: the zero value
NoCredentials ==
    [InstanceIdentityCredential |-> [Cert |-> <<>>, Key |-> ""],
     C2CCredential |-> [Cert |-> <<>>, Key |-> ""]]

\* the common names of the two certificates of a Credentials value
CommonNames(c) ==
    {c.InstanceIdentityCredential.Cert[1].CommonName, c.C2CCredential.Cert[1].CommonName}

(***************************************************************************)
(* Collaborators: every call they receive is appended to log.              *)
(***************************************************************************)
Call(op, h, cyc, cont, cr, ret) ==
    [op |-> op, h |-> h, cycle |-> cyc, container |-> cont, creds |-> cr, ret |-> ret]

Metric(name, cyc) == Call(name, 0, cyc, NoContainer, NoCredentials, NilErr)

CredCreationSucceededCount    == "CredCreationSucceededCount"
CredCreationSucceededDuration == "CredCreationSucceededDuration"
CredCreationFailedCount       == "CredCreationFailedCount"

NoMetrics == [succeeded |-> 0, failed |-> 0, durations |-> 0]

TimerUnset == [state |-> "unset", d |-> Ns(0), arms |-> 0]

(***************************************************************************)
(* The supervision loop: credManager.Runner.                               *)
(***************************************************************************)
Return(err) == pc' = "done" /\ result' = err

\* a slip: the invalidation credentials carry the container's identifier
ShutdownCertGUID_ContainerGuid == "instance-guid"

\* the generation identifier of the invalidation credentials
ShutdownCertGUID == ""

\* a slip: the last handler's Close error is returned
ShutdownResult_CloseError == CloseErr(NumHandlers)

\* what the loop returns after the Close fan-out
ShutdownResult == NilErr

\* a slip: the error of Update is dropped
UpdateFailed_Never(err) == FALSE

\* `if err != nil` after a handler's Update
UpdateFailed(err) == err # NilErr

\* a slip: the error of generateCreds is dropped
GenerateFailed_Never(err) == FALSE

\* `if err != nil` after generateCreds
GenerateFailed(err) == err # NilErr

\* a slip: the failure is not counted
IncrementFailed_Dropped(m) == m

\* c.metronClient.IncrementCounter(CredCreationFailedCount)
IncrementFailed(m) == [m EXCEPT !.failed = @ + 1]

\* a slip: the snapshot of the initial issuance is kept for later cycles
NodeInfo_Cached == IF cycle = 0 THEN nodeInfo ELSE container

\* node.Info(): the snapshot a cycle works with
NodeInfo == nodeInfo

\* node.Info() and generateCreds(logger, container, certGUID) with `outcome`,
\* then the failure branch `if err != nil { counter; return err }`, or else
\* the continuation at `next` (or `after` when there is no handler to call)
Generate(certGUID, outcome, next, after) ==
    /\ container' = NodeInfo
    /\ cycle' = cycle + 1
    /\ IF GenerateFailed(outcome)
       THEN /\ creds' = NoCredentials
            /\ metrics' = IncrementFailed(metrics)
            /\ log' = log \o <<Call("Info", 0, cycle + 1, nodeInfo, NoCredentials, NilErr),
                               Call("generateCreds", 0, cycle + 1, NodeInfo,
                                    NoCredentials, outcome),
                               Metric(CredCreationFailedCount, cycle + 1)>>
            /\ Return(outcome)
            /\ idx' = idx
       ELSE /\ creds' = generateCreds(NodeInfo, certGUID)
            /\ log' = log \o <<Call("Info", 0, cycle + 1, nodeInfo, NoCredentials, NilErr),
                               Call("generateCreds", 0, cycle + 1, NodeInfo,
                                    generateCreds(NodeInfo, certGUID), outcome)>>
            /\ idx' = 1
            /\ pc' = IF NumHandlers = 0 THEN after ELSE next
            /\ UNCHANGED <<metrics, result>>

\* lines 176-185: initial issuance
InitialGenerate ==
    /\ pc = "start"
    /\ \E outcome \in GenOutcomes :
          Generate(NodeInfo.Guid, outcome, "initUpdate", "initMetrics")
    /\ UNCHANGED <<envVars, ready, otherVars>>

\* one iteration of `for _, h := range c.handlers { err := h.Update(...) }`
UpdateHandlers(here, after) ==
    /\ pc = here
    /\ \E err \in {NilErr, UpdateErr(idx)} :
          /\ log' = Append(log, Call("Update", idx, cycle, container, creds, err))
          /\ IF UpdateFailed(err)
             THEN Return(err) /\ idx' = idx
             ELSE /\ idx' = idx + 1
                  /\ pc' = IF idx = NumHandlers THEN after ELSE here
                  /\ UNCHANGED result
    /\ UNCHANGED <<envVars, container, creds, cycle, ready, metrics, otherVars>>

\* lines 187-192
InitialUpdate == UpdateHandlers("initUpdate", "initMetrics")

\* IncrementCounter(CredCreationSucceededCount); SendDuration(...)
SuccessMetrics(here, next) ==
    /\ pc = here
    /\ metrics' = [metrics EXCEPT !.succeeded = @ + 1, !.durations = @ + 1]
    /\ log' = log \o <<Metric(CredCreationSucceededCount, cycle),
                       Metric(CredCreationSucceededDuration, cycle)>>
    /\ pc' = next
    /\ UNCHANGED <<envVars, container, creds, idx, cycle, ready, result, otherVars>>

\* a slip: readiness is signalled without arming the timer
InitialMetrics_SkipTimer == SuccessMetrics("initMetrics", "closeReady")

\* lines 194-195
InitialMetrics == SuccessMetrics("initMetrics", "newTimer")

\* lines 197-198
NewTimer ==
    /\ pc = "newTimer"
    /\ timer' = [state |-> "armed",
                 d |-> calculateCredentialRotationPeriod(validityPeriod),
                 arms |-> timer.arms + 1]
    /\ log' = Append(log, Call("NewTimer", 0, cycle, NoContainer, NoCredentials, NilErr))
    /\ pc' = "closeReady"
    /\ UNCHANGED <<validityPeriod, nodeInfo, now, signals, sent, rotations,
                   container, creds, idx, cycle, ready, result, metrics, otherVars>>

\* line 200
CloseReady ==
    /\ pc = "closeReady"
    /\ ready' = ready + 1
    /\ log' = Append(log, Call("close(ready)", 0, cycle, NoContainer, NoCredentials, NilErr))
    /\ pc' = "select"
    /\ UNCHANGED <<envVars, container, creds, idx, cycle, result, metrics, otherVars>>

\* a slip: each rotation draws an identifier of its own
RotateGenerate_FreshGuid ==
    /\ pc = "select"
    /\ timer.state = "fired"
    /\ timer' = [timer EXCEPT !.state = "drained"]
    /\ \E outcome \in GenOutcomes :
          Generate("rotation-guid", outcome, "rotMetrics", "rotMetrics")
    /\ UNCHANGED <<validityPeriod, nodeInfo, now, signals, sent, rotations, ready, otherVars>>

\* a slip: a failed rotation is counted and retried at the next period
RotateGenerate_Retry ==
    /\ pc = "select"
    /\ timer.state = "fired"
    /\ \E outcome \in GenOutcomes :
          IF GenerateFailed(outcome)
          THEN /\ timer' = [timer EXCEPT !.state = "armed", !.arms = @ + 1]
               /\ container' = nodeInfo
               /\ cycle' = cycle + 1
               /\ creds' = NoCredentials
               /\ metrics' = IncrementFailed(metrics)
               /\ log' = log \o <<Call("Info", 0, cycle + 1, nodeInfo, NoCredentials, NilErr),
                                  Call("generateCreds", 0, cycle + 1, nodeInfo,
                                       NoCredentials, outcome),
                                  Metric(CredCreationFailedCount, cycle + 1)>>
               /\ UNCHANGED <<pc, idx, result>>
          ELSE /\ timer' = [timer EXCEPT !.state = "drained"]
               /\ Generate(nodeInfo.Guid, outcome, "rotMetrics", "rotMetrics")
    /\ UNCHANGED <<validityPeriod, nodeInfo, now, signals, sent, rotations, ready, otherVars>>

\* lines 205-215: `case <-regenCertTimer.C()`
RotateGenerate ==
    /\ pc = "select"
    /\ timer.state = "fired"
    /\ timer' = [timer EXCEPT !.state = "drained"]
    /\ \E outcome \in GenOutcomes :
          Generate(NodeInfo.Guid, outcome, "rotMetrics", "rotMetrics")
    /\ UNCHANGED <<validityPeriod, nodeInfo, now, signals, sent, rotations, ready, otherVars>>

\* a slip: the timer is re-armed without waiting for the handlers
RotateMetrics_SkipUpdates == SuccessMetrics("rotMetrics", "reset")

\* lines 216-217
RotateMetrics ==
    SuccessMetrics("rotMetrics", IF NumHandlers = 0 THEN "reset" ELSE "rotUpdate")

\* lines 219-224
RotateUpdate == UpdateHandlers("rotUpdate", "reset")

\* lines 226-228
Reset ==
    /\ pc = "reset"
    /\ timer' = [state |-> "armed",
                 d |-> calculateCredentialRotationPeriod(validityPeriod),
                 arms |-> timer.arms + 1]
    /\ log' = Append(log, Call("Reset", 0, cycle, NoContainer, NoCredentials, NilErr))
    /\ pc' = "select"
    /\ UNCHANGED <<validityPeriod, nodeInfo, now, signals, sent, rotations,
                   container, creds, idx, cycle, ready, result, metrics, otherVars>>

\* a slip: the signal is taken off the channel and the loop keeps waiting
SignalGenerate_Ignored ==
    /\ pc = "select"
    /\ signals > 0
    /\ signals' = signals - 1
    /\ UNCHANGED <<validityPeriod, nodeInfo, now, sent, timer, rotations, loopVars, otherVars>>

\* lines 229-237: `case signal := <-signals`
SignalGenerate ==
    /\ pc = "select"
    /\ signals > 0
    /\ signals' = signals - 1
    /\ \E outcome \in GenOutcomes :
          /\ Generate(ShutdownCertGUID, outcome, "close", "return")
    /\ UNCHANGED <<validityPeriod, nodeInfo, now, sent, timer, rotations, ready, otherVars>>

\* a slip: the Close fan-out stops at the first error and returns it
CloseHandlers_FailFast ==
    /\ pc = "close"
    /\ \E err \in {NilErr, CloseErr(idx)} :
          /\ log' = Append(log, Call("Close", idx, cycle, container, creds, err))
          /\ IF err # NilErr
             THEN Return(err) /\ idx' = idx
             ELSE /\ idx' = idx + 1
                  /\ pc' = IF idx = NumHandlers THEN "return" ELSE "close"
                  /\ UNCHANGED result
    /\ UNCHANGED <<envVars, container, creds, cycle, ready, metrics, otherVars>>

\* lines 238-240: one iteration of `for _, h := range c.handlers { h.Close(...) }`
CloseHandlers ==
    /\ pc = "close"
    /\ \E err \in {NilErr, CloseErr(idx)} :
          log' = Append(log, Call("Close", idx, cycle, container, creds, err))
    /\ idx' = idx + 1
    /\ pc' = IF idx = NumHandlers THEN "return" ELSE "close"
    /\ UNCHANGED <<envVars, container, creds, cycle, ready, result, metrics, otherVars>>

\* a slip: the signal case leaves the select and the loop goes on
ReturnNil_BreakOnly ==
    /\ pc = "return"
    /\ pc' = "select"
    /\ UNCHANGED <<envVars, container, creds, idx, cycle, ready, result, metrics, log,
                   otherVars>>

\* line 241
ReturnNil ==
    /\ pc = "return"
    /\ Return(ShutdownResult)
    /\ UNCHANGED <<envVars, container, creds, idx, cycle, ready, metrics, log, otherVars>>

(***************************************************************************)
(* The environment of the loop.                                            *)
(***************************************************************************)
\* the lifecycle engine delivers a signal
Signal ==
    /\ sent < MaxSignals
    /\ sent' = sent + 1
    /\ signals' = signals + 1
    /\ UNCHANGED <<validityPeriod, nodeInfo, now, timer, rotations, loopVars, otherVars>>

\* the rotation period elapses: the timer's channel becomes readable
TimerFire ==
    /\ timer.state = "armed"
    /\ rotations < MaxRotations
    /\ timer' = [timer EXCEPT !.state = "fired"]
    /\ rotations' = rotations + 1
    /\ now' = now + 1
    /\ UNCHANGED <<validityPeriod, nodeInfo, signals, sent, loopVars, otherVars>>

\* the container's addresses or internal routes change
ChangeInfo ==
    /\ pc # "done"
    /\ \E i \in Infos(nodeInfo.Guid) \ {nodeInfo} : nodeInfo' = i
    /\ UNCHANGED <<validityPeriod, now, signals, sent, timer, rotations, loopVars, otherVars>>

RunnerValidityPeriods == {Hour, DurMul(24, Hour)}

(***************************************************************************)
(* Credential directories: CreateCredDir and RemoveCredDir.  A string is   *)
(* the sequence of its pieces, so the empty string is <<>> and             *)
(* concatenation is \o.  An error is nil or carries its Error() text.      *)
(***************************************************************************)
NilError == [isNil |-> TRUE, text |-> <<>>]
Error(text) == [isNil |-> FALSE, text |-> text]

\* what a handler's CreateDir and RemoveDir may return
BindMount(h, n) == [SrcPath |-> <<"src", ToString(h), ToString(n)>>]
EnvironmentVariable(h, n) == [Name |-> <<"ENV", ToString(h), ToString(n)>>]
HandlerErrors(h) == {Error(<<"handler ", ToString(h), " failed">>),
                     Error(<<"handler ", ToString(h), " busy">>)}
CreateDirOutcomes(h) ==
    [mounts : {<<>>, <<BindMount(h, 1)>>, <<BindMount(h, 1), BindMount(h, 2)>>},
     envs   : {<<>>, <<EnvironmentVariable(h, 1)>>},
     err    : {NilError}]
    \cup [mounts : {<<>>}, envs : {<<>>}, err : HandlerErrors(h)]
RemoveDirOutcomes(h) == {NilError} \cup HandlerErrors(h)

DirCall(op, h, mounts, envs, err) ==
    [op |-> op, h |-> h, mounts |-> mounts, envs |-> envs, err |-> err]

(***************************************************************************)
(* ifrit processes and signals, as the steps and the reporter use them.    *)
(* A process is created by ifrit.Background(runner): its goroutine calls   *)
(* runner.Run once; Signal(s) hands s to the runner; every channel         *)
(* returned by Wait() yields the runner's exit error once it has exited.   *)
(***************************************************************************)
OsSignals == {"interrupt", "terminated"}

NoProcess == [state |-> "none", runs |-> 0, signalled |-> <<>>, err |-> "nil"]

\* ifrit.Background(runner)
Background(p) == [p EXCEPT !.state = "spawned"]
\* the process's goroutine calls runner.Run
RunnerRun(p) == [p EXCEPT !.state = "running", !.runs = @ + 1]
\* process.Signal(s)
ProcessSignal(p, s) == [p EXCEPT !.signalled = Append(@, s)]
\* runner.Run returns err
RunnerExit(p, err) == [p EXCEPT !.state = "exited", !.err = err]

RsIdle ==
    /\ rsPc = "idle" /\ rsCheck = NoProcess /\ rsSignals = <<>> /\ rsSent = 0
    /\ rsReady = 0 /\ rsResult = "running" /\ rsLog = <<>>
HcIdle ==
    /\ hcPc = "idle" /\ hcHasLiveness = FALSE /\ hcStartup = NoProcess
    /\ hcLiveness = NoProcess /\ hcWatcher = "none" /\ hcSignals = <<>> /\ hcSent = 0
    /\ hcReady = 0 /\ hcResult = "running" /\ hcLog = <<>>
RepIdle ==
    /\ repPc = "idle" /\ repTimer = TimerUnset /\ repSignals = 0 /\ repSent = 0
    /\ repFires = 0 /\ repReady = 0 /\ repResult = "running" /\ repLog = <<>>
StepsIdle == RsIdle /\ HcIdle /\ RepIdle

\* no call of calculateCredentialRotationPeriod, generateCreds or the
\* directory operations is under way
RotationIdle == rpIn = Ns(0) /\ rpOut = Ns(0) /\ rpPc = "idle"
CertIdle == gcIn = NoContainer /\ gcGuid = "" /\ gcOut = NoCredentials /\ gcPc = "idle"
DirsIdle ==
    /\ dirPc = "idle" /\ dirIdx = 0 /\ dirCalls = <<>>
    /\ dirMounts = <<>> /\ dirEnvs = <<>> /\ dirErrs = <<>>
    /\ dirRet = [mounts |-> <<>>, envs |-> <<>>, err |-> NilError]

Init ==
    /\ validityPeriod \in RunnerValidityPeriods
    /\ \E g \in Guids : nodeInfo \in Infos(g)
    /\ now = 0
    /\ signals = 0
    /\ sent = 0
    /\ timer = TimerUnset
    /\ rotations = 0
    /\ pc = "start"
    /\ container = NoContainer
    /\ creds = NoCredentials
    /\ idx = 0
    /\ cycle = 0
    /\ ready = 0
    /\ result = Running
    /\ metrics = NoMetrics
    /\ log = <<>>
    /\ RotationIdle /\ CertIdle /\ DirsIdle /\ StepsIdle

Next ==
    \/ InitialGenerate
    \/ InitialUpdate
    \/ InitialMetrics
    \/ NewTimer
    \/ CloseReady
    \/ RotateGenerate
    \/ RotateMetrics
    \/ RotateUpdate
    \/ Reset
    \/ SignalGenerate
    \/ CloseHandlers
    \/ ReturnNil
    \/ Signal
    \/ TimerFire
    \/ ChangeInfo

Spec == Init /\ [][Next]_vars

(***************************************************************************)
(* The loop under fair scheduling.  The goroutine running the loop keeps   *)
(* taking steps while it can (generation and handler calls return), and    *)
(* select chooses at random among its ready cases, so a signal that is     *)
(* pending every time the loop waits is eventually the case chosen.        *)
(***************************************************************************)
LoopStep ==
    \/ InitialGenerate
    \/ InitialUpdate
    \/ InitialMetrics
    \/ NewTimer
    \/ CloseReady
    \/ RotateGenerate
    \/ RotateMetrics
    \/ RotateUpdate
    \/ Reset
    \/ SignalGenerate
    \/ CloseHandlers
    \/ ReturnNil

\* the environment delivers signals and fires the timer; the container's
\* metadata, which no guard of the loop reads, stays as it was at the start
NextLive ==
    \/ LoopStep
    \/ Signal
    \/ TimerFire

SpecLive == Init /\ [][NextLive]_vars /\ WF_vars(LoopStep) /\ SF_vars(SignalGenerate)

(***************************************************************************)
(* Calls of calculateCredentialRotationPeriod on their own: the validity   *)
(* period ranges over small magnitudes of either sign, the neighbourhood   *)
(* of the 4h threshold, whole half-hours up to a day and beyond, and the   *)
(* extreme values of time.Duration.                                        *)
(***************************************************************************)
ValidityPeriods ==
    { Ns(n) : n \in -MaxSmallNs..MaxSmallNs }
    \cup { DurAdd(DurMul(4, Hour), Ns(n)) : n \in -MaxSmallNs..MaxSmallNs }
    \cup { DurMul(k, DurMul(30, Minute)) : k \in 0..MaxHalfHours }
    \cup { DurNeg(DurMul(k, DurMul(30, Minute))) : k \in 0..MaxHalfHours }
    \cup { MaxDuration, MinDuration, DurSub(MaxDuration, Ns(1)), DurAdd(MinDuration, Ns(1)) }

InitRotation ==
    /\ rpIn \in ValidityPeriods
    /\ rpOut = Ns(0)
    /\ rpPc = "call"
    /\ validityPeriod = Hour
    /\ nodeInfo = Info("instance-guid", "10.0.0.5", "192.168.1.1", <<>>)
    /\ now = 0
    /\ signals = 0
    /\ sent = 0
    /\ timer = TimerUnset
    /\ rotations = 0
    /\ pc = "idle"
    /\ container = NoContainer
    /\ creds = NoCredentials
    /\ idx = 0
    /\ cycle = 0
    /\ ready = 0
    /\ result = Running
    /\ metrics = NoMetrics
    /\ log = <<>>
    /\ CertIdle /\ DirsIdle /\ StepsIdle

CalculateRotation ==
    /\ rpPc = "call"
    /\ rpOut' = calculateCredentialRotationPeriod(rpIn)
    /\ rpPc' = "ret"
    /\ UNCHANGED <<rpIn, envVars, loopVars, gcVars, dirVars, stepVars>>

NextRotation == CalculateRotation

SpecRotation == InitRotation /\ [][NextRotation]_vars

(***************************************************************************)
(* Calls of CreateCredDir and RemoveCredDir on their own, one handler call *)
(* per step.                                                               *)
(***************************************************************************)
RunnerIdle ==
    /\ validityPeriod = Hour
    /\ nodeInfo = Info("instance-guid", "10.0.0.5", "192.168.1.1", <<>>)
    /\ now = 0
    /\ signals = 0
    /\ sent = 0
    /\ timer = TimerUnset
    /\ rotations = 0
    /\ pc = "idle"
    /\ container = NoContainer
    /\ creds = NoCredentials
    /\ idx = 0
    /\ cycle = 0
    /\ ready = 0
    /\ result = Running
    /\ metrics = NoMetrics
    /\ log = <<>>

InitDirs ==
    /\ DirsIdle
    /\ RunnerIdle /\ RotationIdle /\ CertIdle /\ StepsIdle

dirOther == <<envVars, loopVars, rpVars, gcVars, stepVars>>

\* entry of CreateCredDir: var mounts, var envs
CreateCredDir ==
    /\ dirPc = "idle"
    /\ dirPc' = "create"
    /\ dirIdx' = 1
    /\ dirMounts' = <<>>
    /\ dirEnvs' = <<>>
    /\ UNCHANGED <<dirCalls, dirErrs, dirRet, dirOther>>

\* a slip: a failing CreateDir returns what the earlier handlers produced
CreateDir_KeepsEarlier ==
    /\ dirPc = "create"
    /\ dirIdx <= NumHandlers
    /\ \E out \in CreateDirOutcomes(dirIdx) :
          /\ dirCalls' = Append(dirCalls,
                                DirCall("CreateDir", dirIdx, out.mounts, out.envs, out.err))
          /\ IF ~out.err.isNil
                THEN /\ dirRet' = [mounts |-> dirMounts, envs |-> dirEnvs, err |-> out.err]
                     /\ dirPc' = "created"
                     /\ UNCHANGED <<dirIdx, dirMounts, dirEnvs>>
                ELSE /\ dirEnvs' = dirEnvs \o out.envs
                     /\ dirMounts' = dirMounts \o out.mounts
                     /\ dirIdx' = dirIdx + 1
                     /\ UNCHANGED <<dirPc, dirRet>>
    /\ UNCHANGED <<dirErrs, dirOther>>

\* one iteration of CreateCredDir's loop over the handlers
CreateDir ==
    /\ dirPc = "create"
    /\ dirIdx <= NumHandlers
    /\ \E out \in CreateDirOutcomes(dirIdx) :
          /\ dirCalls' = Append(dirCalls,
                                DirCall("CreateDir", dirIdx, out.mounts, out.envs, out.err))
          /\ IF ~out.err.isNil
                THEN /\ dirRet' = [mounts |-> <<>>, envs |-> <<>>, err |-> out.err]
                     /\ dirPc' = "created"
                     /\ UNCHANGED <<dirIdx, dirMounts, dirEnvs>>
                ELSE /\ dirEnvs' = dirEnvs \o out.envs
                     /\ dirMounts' = dirMounts \o out.mounts
                     /\ dirIdx' = dirIdx + 1
                     /\ UNCHANGED <<dirPc, dirRet>>
    /\ UNCHANGED <<dirErrs, dirOther>>

\* return mounts, envs, nil
CreateReturn ==
    /\ dirPc = "create"
    /\ dirIdx > NumHandlers
    /\ dirRet' = [mounts |-> dirMounts, envs |-> dirEnvs, err |-> NilError]
    /\ dirPc' = "created"
    /\ UNCHANGED <<dirIdx, dirCalls, dirMounts, dirEnvs, dirErrs, dirOther>>

\* the ErrorFormat closure of RemoveCredDir, s being its accumulator
RECURSIVE ErrorFormatFrom(_, _)
ErrorFormatFrom(errs, s) ==
    IF errs = <<>> THEN s
    ELSE LET e == Head(errs)
             sep == IF s # <<>> THEN s \o <<"; ">> ELSE s
         IN  ErrorFormatFrom(Tail(errs), IF ~e.isNil THEN sep \o e.text ELSE s)

ErrorFormat(errs) == ErrorFormatFrom(errs, <<>>)

\* err.ErrorOrNil(): nil when nothing was appended
ErrorOrNil(errs) == IF Len(errs) = 0 THEN NilError ELSE Error(ErrorFormat(errs))

\* entry of RemoveCredDir: err := &multierror.Error{...}
RemoveCredDir ==
    /\ dirPc = "idle"
    /\ dirPc' = "remove"
    /\ dirIdx' = 1
    /\ dirErrs' = <<>>
    /\ UNCHANGED <<dirCalls, dirMounts, dirEnvs, dirRet, dirOther>>

\* a slip: the teardown stops at the first failing handler
RemoveDir_FailFast ==
    /\ dirPc = "remove"
    /\ dirIdx <= NumHandlers
    /\ \E handlerErr \in RemoveDirOutcomes(dirIdx) :
          /\ dirCalls' = Append(dirCalls,
                                DirCall("RemoveDir", dirIdx, <<>>, <<>>, handlerErr))
          /\ dirErrs' = IF ~handlerErr.isNil THEN Append(dirErrs, handlerErr) ELSE dirErrs
          /\ dirIdx' = IF ~handlerErr.isNil THEN NumHandlers + 1 ELSE dirIdx + 1
    /\ UNCHANGED <<dirPc, dirMounts, dirEnvs, dirRet, dirOther>>

\* one iteration of RemoveCredDir's loop over the handlers
RemoveDir ==
    /\ dirPc = "remove"
    /\ dirIdx <= NumHandlers
    /\ \E handlerErr \in RemoveDirOutcomes(dirIdx) :
          /\ dirCalls' = Append(dirCalls,
                                DirCall("RemoveDir", dirIdx, <<>>, <<>>, handlerErr))
          /\ dirErrs' = IF ~handlerErr.isNil THEN Append(dirErrs, handlerErr) ELSE dirErrs
          /\ dirIdx' = dirIdx + 1
    /\ UNCHANGED <<dirPc, dirMounts, dirEnvs, dirRet, dirOther>>

\* return err.ErrorOrNil()
RemoveReturn ==
    /\ dirPc = "remove"
    /\ dirIdx > NumHandlers
    /\ dirRet' = [mounts |-> <<>>, envs |-> <<>>, err |-> ErrorOrNil(dirErrs)]
    /\ dirPc' = "removed"
    /\ UNCHANGED <<dirIdx, dirCalls, dirMounts, dirEnvs, dirErrs, dirOther>>

NextDirs ==
    \/ CreateCredDir
    \/ CreateDir
    \/ CreateReturn
    \/ RemoveCredDir
    \/ RemoveDir
    \/ RemoveReturn

SpecDirs == InitDirs /\ [][NextDirs]_vars

(***************************************************************************)
(* Calls of generateCreds on their own: the snapshot, the generation       *)
(* identifier and the validity period range over small sets.               *)
(***************************************************************************)
RouteHostnames == {"a.apps.internal", "b.apps.internal"}

\* the route lists of length n
RECURSIVE RouteLists(_)
RouteLists(n) ==
    IF n = 0 THEN {<<>>}
    ELSE { Append(r, Route(h)) : r \in RouteLists(n - 1), h \in RouteHostnames }

CertContainers ==
    { Info("instance-guid", i, e, r) :
        i \in {"", "10.0.0.5"}, e \in {"", "192.168.1.1"},
        r \in UNION { RouteLists(n) : n \in 0..MaxRoutes } }

CertGUIDs == {"", "instance-guid", "generation-guid"}

InitCert ==
    /\ gcIn \in CertContainers
    /\ gcGuid \in CertGUIDs
    /\ gcOut = NoCredentials
    /\ gcPc = "call"
    /\ validityPeriod \in RunnerValidityPeriods
    /\ nodeInfo = Info("instance-guid", "10.0.0.5", "192.168.1.1", <<>>)
    /\ now = 0
    /\ signals = 0
    /\ sent = 0
    /\ timer = TimerUnset
    /\ rotations = 0
    /\ pc = "idle"
    /\ container = NoContainer
    /\ creds = NoCredentials
    /\ idx = 0
    /\ cycle = 0
    /\ ready = 0
    /\ result = Running
    /\ metrics = NoMetrics
    /\ log = <<>>
    /\ RotationIdle /\ DirsIdle /\ StepsIdle

\* generateCreds(logger, container, certGUID) returning (Credentials, error)
GenerateCredentials ==
    /\ gcPc = "call"
    /\ \E outcome \in GenOutcomes :
          IF GenerateFailed(outcome)
          THEN gcOut' = NoCredentials /\ gcPc' = "err"
          ELSE gcOut' = generateCreds(gcIn, gcGuid) /\ gcPc' = "ret"
    /\ UNCHANGED <<gcIn, gcGuid, envVars, loopVars, rpVars, dirVars, stepVars>>

NextCert == GenerateCredentials

SpecCert == InitCert /\ [][NextCert]_vars

(***************************************************************************)
(* readinessHealthCheckStep.Run, one step per statement that can block or  *)
(* that a collaborator observes.                                           *)
(***************************************************************************)
StartingReadinessMessage == "Stdout: Starting readiness health monitoring of container\n"
AppIsReadyMessage == "Stdout: App is ready!\n"
CancelledError == "CancelledError"

rsOther == <<envVars, loopVars, rpVars, gcVars, dirVars, hcVars, repVars>>

InitReadiness ==
    /\ rsPc = "start" /\ rsCheck = NoProcess /\ rsSignals = <<>> /\ rsSent = 0
    /\ rsReady = 0 /\ rsResult = "running" /\ rsLog = <<>>
    /\ HcIdle /\ RepIdle
    /\ RunnerIdle /\ RotationIdle /\ CertIdle /\ DirsIdle

\* line 38
RsWriteStarting ==
    /\ rsPc = "start"
    /\ rsLog' = Append(rsLog, StartingReadinessMessage)
    /\ rsPc' = "background"
    /\ UNCHANGED <<rsCheck, rsSignals, rsSent, rsReady, rsResult, rsOther>>

\* a slip: Run returns after the message, the check is never started
RsBackground_Missing ==
    /\ rsPc = "background"
    /\ rsResult' = "nil"
    /\ rsPc' = "done"
    /\ UNCHANGED <<rsCheck, rsLog, rsSignals, rsSent, rsReady, rsOther>>

\* line 40: untilReadyProcess := ifrit.Background(step.untilReadyCheck)
RsBackground ==
    /\ rsPc = "background"
    /\ rsCheck' = Background(rsCheck)
    /\ rsLog' = Append(rsLog, "Background(untilReadyCheck)")
    /\ rsPc' = "select"
    /\ UNCHANGED <<rsSignals, rsSent, rsReady, rsResult, rsOther>>

\* lines 43-44: `case <-untilReadyProcess.Wait()`
RsCheckExited ==
    /\ rsPc = "select"
    /\ rsCheck.state = "exited"
    /\ rsLog' = Append(rsLog, AppIsReadyMessage)
    /\ rsPc' = "closeReady"
    /\ UNCHANGED <<rsCheck, rsSignals, rsSent, rsReady, rsResult, rsOther>>

\* lines 45-46: `case s := <-signals` and untilReadyProcess.Signal(s)
RsSignalled ==
    /\ rsPc = "select"
    /\ rsSignals # <<>>
    /\ rsSignals' = Tail(rsSignals)
    /\ rsCheck' = ProcessSignal(rsCheck, Head(rsSignals))
    /\ rsLog' = Append(rsLog, "Signal(untilReadyCheck)")
    /\ rsPc' = "wait"
    /\ UNCHANGED <<rsSent, rsReady, rsResult, rsOther>>

\* lines 47-48: <-untilReadyProcess.Wait(); return new(CancelledError)
RsWaitAndCancel ==
    /\ rsPc = "wait"
    /\ rsCheck.state = "exited"
    /\ rsResult' = CancelledError
    /\ rsPc' = "done"
    /\ UNCHANGED <<rsCheck, rsSignals, rsSent, rsReady, rsLog, rsOther>>

\* line 51
RsCloseReady ==
    /\ rsPc = "closeReady"
    /\ rsReady' = rsReady + 1
    /\ rsLog' = Append(rsLog, "close(ready)")
    /\ rsPc' = "spin"
    /\ UNCHANGED <<rsCheck, rsSignals, rsSent, rsResult, rsOther>>

\* lines 53-54: `for { }`, an iteration of which changes nothing
RsSpin ==
    /\ rsPc = "spin"
    /\ UNCHANGED <<rsVars, rsOther>>

\* the goroutine of the until-ready process calls untilReadyCheck.Run
UntilReadyRun ==
    /\ rsCheck.state = "spawned"
    /\ rsCheck' = RunnerRun(rsCheck)
    /\ rsLog' = Append(rsLog, "untilReadyCheck.Run")
    /\ UNCHANGED <<rsPc, rsSignals, rsSent, rsReady, rsResult, rsOther>>

\* the until-ready check returns by itself: the application is ready, or the
\* check gave up
UntilReadyExit ==
    /\ rsCheck.state = "running"
    /\ \E err \in {"nil", "check failed"} : rsCheck' = RunnerExit(rsCheck, err)
    /\ UNCHANGED <<rsPc, rsSignals, rsSent, rsReady, rsResult, rsLog, rsOther>>

\* the until-ready check returns because it was signalled
UntilReadyCancelled ==
    /\ rsCheck.state = "running"
    /\ rsCheck.signalled # <<>>
    /\ rsCheck' = RunnerExit(rsCheck, CancelledError)
    /\ UNCHANGED <<rsPc, rsSignals, rsSent, rsReady, rsResult, rsLog, rsOther>>

\* the lifecycle engine signals the step
RsSignal ==
    /\ rsSent < MaxStepSignals
    /\ \E s \in OsSignals : rsSignals' = Append(rsSignals, s)
    /\ rsSent' = rsSent + 1
    /\ UNCHANGED <<rsPc, rsCheck, rsReady, rsResult, rsLog, rsOther>>

RsStep ==
    \/ RsWriteStarting
    \/ RsBackground
    \/ RsCheckExited
    \/ RsSignalled
    \/ RsWaitAndCancel
    \/ RsCloseReady
    \/ RsSpin

NextReadiness ==
    \/ RsStep
    \/ UntilReadyRun
    \/ UntilReadyExit
    \/ UntilReadyCancelled
    \/ RsSignal

\* Run's goroutine and the check's goroutine keep running, and a signalled
\* check returns
SpecReadiness ==
    /\ InitReadiness /\ [][NextReadiness]_vars
    /\ WF_vars(RsStep) /\ WF_vars(UntilReadyRun) /\ WF_vars(UntilReadyCancelled)

(***************************************************************************)
(* healthCheckStep.Run and the goroutine it starts to watch the liveness   *)
(* check.  errPropagationCh is unbuffered: a send on it completes only     *)
(* together with a receive.                                                *)
(***************************************************************************)
TimeoutCrash == "EmittableError: Instance never healthy"
NowUnhealthy == "EmittableError: Instance became unhealthy"

hcOther == <<envVars, loopVars, rpVars, gcVars, dirVars, rsVars, repVars>>

InitHealth ==
    /\ hcPc = "start" /\ hcHasLiveness \in BOOLEAN /\ hcStartup = NoProcess
    /\ hcLiveness = NoProcess /\ hcWatcher = "none" /\ hcSignals = <<>> /\ hcSent = 0
    /\ hcReady = 0 /\ hcResult = "running" /\ hcLog = <<>>
    /\ RsIdle /\ RepIdle
    /\ RunnerIdle /\ RotationIdle /\ CertIdle /\ DirsIdle

\* a nil-pointer panic in the watching goroutine ends the whole program
HcAlive == hcWatcher # "panicked"

\* lines 59-63
HcStart ==
    /\ hcPc = "start"
    /\ hcLog' = hcLog \o <<"Stdout: Starting health monitoring of container\n",
                           "Background(startupCheck)">>
    /\ hcStartup' = Background(hcStartup)
    /\ hcPc' = "select"
    /\ UNCHANGED <<hcHasLiveness, hcLiveness, hcWatcher, hcSignals, hcSent, hcReady,
                   hcResult, hcOther>>

\* a slip: the startup check's error is not looked at
HcStartupExited_IgnoresError ==
    /\ hcPc = "select"
    /\ HcAlive
    /\ hcStartup.state = "exited"
    /\ hcPc' = "healthy"
    /\ UNCHANGED <<hcHasLiveness, hcStartup, hcLiveness, hcWatcher, hcSignals, hcSent,
                   hcReady, hcResult, hcLog, hcOther>>

\* lines 66-76: `case err := <-startupProcess.Wait()`
HcStartupExited ==
    /\ hcPc = "select"
    /\ HcAlive
    /\ hcStartup.state = "exited"
    /\ IF hcStartup.err # "nil"
       THEN /\ hcLog' = hcLog \o <<"Stderr: startup check error",
                                   "Stderr: Failed: startup health check never passed.\n",
                                   "Info: timed-out-before-healthy">>
            /\ hcResult' = TimeoutCrash
            /\ hcPc' = "done"
       ELSE /\ hcPc' = "healthy"
            /\ UNCHANGED <<hcLog, hcResult>>
    /\ UNCHANGED <<hcHasLiveness, hcStartup, hcLiveness, hcWatcher, hcSignals, hcSent,
                   hcReady, hcOther>>

\* lines 77-78: `case s := <-signals` and startupProcess.Signal(s)
HcSignalledStarting ==
    /\ hcPc = "select"
    /\ HcAlive
    /\ hcSignals # <<>>
    /\ hcSignals' = Tail(hcSignals)
    /\ hcStartup' = ProcessSignal(hcStartup, Head(hcSignals))
    /\ hcLog' = Append(hcLog, "Signal(startupCheck)")
    /\ hcPc' = "waitStartup"
    /\ UNCHANGED <<hcHasLiveness, hcLiveness, hcWatcher, hcSent, hcReady, hcResult, hcOther>>

\* lines 79-80: <-startupProcess.Wait(); return new(CancelledError)
HcWaitStartup ==
    /\ hcPc = "waitStartup"
    /\ HcAlive
    /\ hcStartup.state = "exited"
    /\ hcResult' = CancelledError
    /\ hcPc' = "done"
    /\ UNCHANGED <<hcHasLiveness, hcStartup, hcLiveness, hcWatcher, hcSignals, hcSent,
                   hcReady, hcLog, hcOther>>

\* lines 83-86
HcBecameHealthy ==
    /\ hcPc = "healthy"
    /\ HcAlive
    /\ hcLog' = hcLog \o <<"Info: transitioned-to-healthy",
                           "Stdout: Container became healthy\n", "close(ready)">>
    /\ hcReady' = hcReady + 1
    /\ hcPc' = "liveness"
    /\ UNCHANGED <<hcHasLiveness, hcStartup, hcLiveness, hcWatcher, hcSignals, hcSent,
                   hcResult, hcOther>>

\* lines 88-105: the liveness check and the goroutine watching it are started
HcStartLiveness ==
    /\ hcPc = "liveness"
    /\ HcAlive
    /\ IF hcHasLiveness
       THEN /\ hcLiveness' = Background(hcLiveness)
            /\ hcWatcher' = "wait"
            /\ hcLog' = Append(hcLog, "Background(livenessCheck)")
       ELSE UNCHANGED <<hcLiveness, hcWatcher, hcLog>>
    /\ hcPc' = "monitor"
    /\ UNCHANGED <<hcHasLiveness, hcStartup, hcSignals, hcSent, hcReady, hcResult, hcOther>>

\* lines 94-100 in the goroutine: `case err := <-livenessProcess.Wait()`, whose
\* err.Error() at line 99 panics when the liveness check exited with nil
HcWatcherReceives ==
    /\ hcWatcher = "wait"
    /\ hcLiveness.state = "exited"
    /\ IF hcLiveness.err = "nil"
       THEN /\ hcWatcher' = "panicked"
            /\ hcLog' = Append(hcLog, "Info: transitioned-to-unhealthy")
       ELSE /\ hcWatcher' = "send"
            /\ hcLog' = hcLog \o <<"Info: transitioned-to-unhealthy",
                                   "Stderr: liveness check error",
                                   "Stderr: Container became unhealthy\n">>
    /\ UNCHANGED <<hcPc, hcHasLiveness, hcStartup, hcLiveness, hcSignals, hcSent, hcReady,
                   hcResult, hcOther>>

\* line 101 in the goroutine together with lines 109-110 in Run: the send on
\* errPropagationCh and `case propogatedErr := <-errPropagationCh`
HcPropagate ==
    /\ hcPc = "monitor"
    /\ hcWatcher = "send"
    /\ hcWatcher' = "done"
    /\ hcResult' = NowUnhealthy
    /\ hcPc' = "done"
    /\ UNCHANGED <<hcHasLiveness, hcStartup, hcLiveness, hcSignals, hcSent, hcReady,
                   hcLog, hcOther>>

\* lines 111, 129-130 (and 133 when there is no liveness check)
HcSignalledMonitoring ==
    /\ hcPc = "monitor"
    /\ HcAlive
    /\ hcSignals # <<>>
    /\ hcSignals' = Tail(hcSignals)
    /\ IF hcHasLiveness
       THEN /\ hcLiveness' = ProcessSignal(hcLiveness, Head(hcSignals))
            /\ hcLog' = Append(hcLog, "Signal(livenessCheck)")
            /\ hcPc' = "waitLiveness"
            /\ UNCHANGED hcResult
       ELSE /\ hcResult' = CancelledError
            /\ hcPc' = "done"
            /\ UNCHANGED <<hcLiveness, hcLog>>
    /\ UNCHANGED <<hcHasLiveness, hcStartup, hcWatcher, hcSent, hcReady, hcOther>>

\* lines 131-133: <-livenessProcess.Wait(); return new(CancelledError)
HcWaitLiveness ==
    /\ hcPc = "waitLiveness"
    /\ HcAlive
    /\ hcLiveness.state = "exited"
    /\ hcResult' = CancelledError
    /\ hcPc' = "done"
    /\ UNCHANGED <<hcHasLiveness, hcStartup, hcLiveness, hcWatcher, hcSignals, hcSent,
                   hcReady, hcLog, hcOther>>

\* the goroutine of the startup process calls startupCheck.Run
StartupRun ==
    /\ HcAlive
    /\ hcStartup.state = "spawned"
    /\ hcStartup' = RunnerRun(hcStartup)
    /\ UNCHANGED <<hcPc, hcHasLiveness, hcLiveness, hcWatcher, hcSignals, hcSent, hcReady,
                   hcResult, hcLog, hcOther>>

\* the startup check returns by itself: the instance is healthy, or it timed out
StartupExit ==
    /\ HcAlive
    /\ hcStartup.state = "running"
    /\ \E err \in {"nil", "startup timed out"} : hcStartup' = RunnerExit(hcStartup, err)
    /\ UNCHANGED <<hcPc, hcHasLiveness, hcLiveness, hcWatcher, hcSignals, hcSent, hcReady,
                   hcResult, hcLog, hcOther>>

\* the startup check returns because it was signalled
StartupCancelled ==
    /\ HcAlive
    /\ hcStartup.state = "running"
    /\ hcStartup.signalled # <<>>
    /\ hcStartup' = RunnerExit(hcStartup, CancelledError)
    /\ UNCHANGED <<hcPc, hcHasLiveness, hcLiveness, hcWatcher, hcSignals, hcSent, hcReady,
                   hcResult, hcLog, hcOther>>

\* the goroutine of the liveness process calls livenessCheck.Run
LivenessRun ==
    /\ HcAlive
    /\ hcLiveness.state = "spawned"
    /\ hcLiveness' = RunnerRun(hcLiveness)
    /\ UNCHANGED <<hcPc, hcHasLiveness, hcStartup, hcWatcher, hcSignals, hcSent, hcReady,
                   hcResult, hcLog, hcOther>>

\* the liveness check returns by itself
LivenessExit ==
    /\ HcAlive
    /\ hcLiveness.state = "running"
    /\ \E err \in {"nil", "liveness failed"} : hcLiveness' = RunnerExit(hcLiveness, err)
    /\ UNCHANGED <<hcPc, hcHasLiveness, hcStartup, hcWatcher, hcSignals, hcSent, hcReady,
                   hcResult, hcLog, hcOther>>

\* the liveness check returns because it was signalled
LivenessCancelled ==
    /\ HcAlive
    /\ hcLiveness.state = "running"
    /\ hcLiveness.signalled # <<>>
    /\ hcLiveness' = RunnerExit(hcLiveness, CancelledError)
    /\ UNCHANGED <<hcPc, hcHasLiveness, hcStartup, hcWatcher, hcSignals, hcSent, hcReady,
                   hcResult, hcLog, hcOther>>

\* the lifecycle engine signals the step
HcSignal ==
    /\ HcAlive
    /\ hcSent < MaxStepSignals
    /\ \E s \in OsSignals : hcSignals' = Append(hcSignals, s)
    /\ hcSent' = hcSent + 1
    /\ UNCHANGED <<hcPc, hcHasLiveness, hcStartup, hcLiveness, hcWatcher, hcReady,
                   hcResult, hcLog, hcOther>>

HcStep ==
    \/ HcStart
    \/ HcStartupExited
    \/ HcSignalledStarting
    \/ HcWaitStartup
    \/ HcBecameHealthy
    \/ HcStartLiveness
    \/ HcPropagate
    \/ HcSignalledMonitoring
    \/ HcWaitLiveness

HcChecks ==
    \/ StartupRun
    \/ StartupCancelled
    \/ LivenessRun
    \/ LivenessCancelled

NextHealth ==
    \/ HcStep
    \/ HcWatcherReceives
    \/ HcChecks
    \/ StartupExit
    \/ LivenessExit
    \/ HcSignal

\* every goroutine keeps running while it can, and a signalled check returns
SpecHealth ==
    /\ InitHealth /\ [][NextHealth]_vars
    /\ WF_vars(HcStep) /\ WF_vars(HcWatcherReceives) /\ WF_vars(HcChecks)

(***************************************************************************)
(* metrics Reporter.Run.  repLog holds the calls of the latest timer case. *)
(***************************************************************************)
totalMemory            == "CapacityTotalMemory"
totalDisk              == "CapacityTotalDisk"
totalContainers        == "CapacityTotalContainers"
remainingMemory        == "CapacityRemainingMemory"
remainingDisk          == "CapacityRemainingDisk"
remainingContainers    == "CapacityRemainingContainers"
allocatedMemory        == "CapacityAllocatedMemory"
allocatedDisk          == "CapacityAllocatedDisk"
containerUsageMemory   == "ContainerUsageMemory"
containerUsageDisk     == "ContainerUsageDisk"
containerCount         == "ContainerCount"
startingContainerCount == "StartingContainerCount"

\* reporter.Interval
Interval == DurMul(15, Second)

ExecutorResources(memoryMB, diskMB, containers) ==
    [MemoryMB |-> memoryMB, DiskMB |-> diskMB, Containers |-> containers]
NoResources == ExecutorResources(0, 0, 0)

\* what the executor source may return
TotalResourcesOutcomes ==
    {[res |-> ExecutorResources(1024, 2048, 10), failed |-> FALSE],
     [res |-> NoResources, failed |-> TRUE]}
RemainingResourcesOutcomes ==
    {[res |-> ExecutorResources(256, 2048, 7), failed |-> FALSE],
     [res |-> ExecutorResources(1024, 2048, 10), failed |-> FALSE],
     [res |-> ExecutorResources(512, 512, 5), failed |-> TRUE]}
MiB == 1024 * 1024
Metrics(memoryBytes, diskBytes) ==
    [MemoryUsageInBytes |-> memoryBytes, DiskUsageInBytes |-> diskBytes]
BulkMetricsOutcomes ==
    {[metrics |-> <<Metrics(3 * MiB + 5, 2 * MiB - 1), Metrics(MiB - 1, 7 * MiB)>>,
      failed |-> FALSE],
     [metrics |-> <<>>, failed |-> TRUE]}
ListContainersOutcomes ==
    {[containers |-> <<"reserved", "initializing", "created", "running", "completed">>,
      failed |-> FALSE],
     [containers |-> <<>>, failed |-> FALSE],
     [containers |-> <<>>, failed |-> TRUE]}

AllMetricNames ==
    {totalMemory, totalDisk, totalContainers, remainingMemory, remainingDisk,
     remainingContainers, allocatedMemory, allocatedDisk, containerUsageMemory,
     containerUsageDisk, containerCount, startingContainerCount}
\* the sends the metron client may fail
SendFailures == {{}, {allocatedMemory}, AllMetricNames}

containerIsStarting(state) == state \in {"reserved", "initializing", "created"}

bytesToMebibytes(bytes) == (bytes \div 1024) \div 1024

\* calculateUsageMetrics, one of its two sums
RECURSIVE SumMebibytes(_, _)
SumMebibytes(ms, field) ==
    IF ms = <<>> THEN 0
    ELSE bytesToMebibytes(Head(ms)[field]) + SumMebibytes(Tail(ms), field)

RECURSIVE CountStarting(_)
CountStarting(cs) ==
    IF cs = <<>> THEN 0
    ELSE (IF containerIsStarting(Head(cs)) THEN 1 ELSE 0) + CountStarting(Tail(cs))

\* resources with every field -1, as set after a failed call
MinusOne == ExecutorResources(-1, -1, -1)

\* a slip: the allocation is computed whatever the calls returned
Allocated_AlwaysComputed(total, remaining, remainingFailed, totalFailed) ==
    total - remaining

\* lines 61-86 for one of allocatedMemoryMB, allocatedDiskMB: 0, then -1 after
\* a failed call, then the difference if still 0 (both are set together, so
\* `allocatedDiskMB == 0 && allocatedMemoryMB == 0` is either's test)
Allocated(total, remaining, remainingFailed, totalFailed) ==
    LET afterCalls == IF remainingFailed \/ totalFailed THEN -1 ELSE 0
    IN  IF afterCalls = 0 THEN total - remaining ELSE afterCalls

RepCall(op, name, value, res, failed) ==
    [op |-> op, name |-> name, value |-> value, res |-> res, failed |-> failed]
LoggedError(name) == RepCall("Error", name, 0, NoResources, FALSE)

\* one MetronClient call and the logger.Error that follows its failure
Send(op, name, value, failing, message) ==
    <<RepCall(op, name, value, NoResources, name \in failing)>> \o
    (IF name \in failing THEN <<LoggedError(message)>> ELSE <<>>)

repOther == <<envVars, loopVars, rpVars, gcVars, dirVars, rsVars, hcVars>>

InitReporter ==
    /\ repPc = "start" /\ repTimer = TimerUnset /\ repSignals = 0 /\ repSent = 0
    /\ repFires = 0 /\ repReady = 0 /\ repResult = "running" /\ repLog = <<>>
    /\ RsIdle /\ HcIdle
    /\ RunnerIdle /\ RotationIdle /\ CertIdle /\ DirsIdle

\* line 50
RepCloseReady ==
    /\ repPc = "start"
    /\ repReady' = repReady + 1
    /\ repPc' = "newTimer"
    /\ UNCHANGED <<repTimer, repSignals, repSent, repFires, repResult, repLog, repOther>>

\* line 52
RepNewTimer ==
    /\ repPc = "newTimer"
    /\ repTimer' = [state |-> "armed", d |-> Interval, arms |-> repTimer.arms + 1]
    /\ repPc' = "select"
    /\ UNCHANGED <<repReady, repSignals, repSent, repFires, repResult, repLog, repOther>>

\* lines 56-58: `case <-signals`
RepSignalled ==
    /\ repPc = "select"
    /\ repSignals > 0
    /\ repSignals' = repSignals - 1
    /\ repResult' = "nil"
    /\ repPc' = "done"
    /\ UNCHANGED <<repTimer, repSent, repFires, repReady, repLog, repOther>>

\* lines 60-165: `case <-timer.C()`
RepReport ==
    /\ repPc = "select"
    /\ repTimer.state = "fired"
    /\ \E rem \in RemainingResourcesOutcomes, tot \in TotalResourcesOutcomes,
          bulk \in BulkMetricsOutcomes, list \in ListContainersOutcomes,
          failing \in SendFailures :
          LET remainingCapacity == IF rem.failed THEN MinusOne ELSE rem.res
              totalCapacity == IF tot.failed THEN MinusOne ELSE tot.res
              allocatedDiskMB == Allocated(totalCapacity.DiskMB, remainingCapacity.DiskMB,
                                           rem.failed, tot.failed)
              allocatedMemoryMB == Allocated(totalCapacity.MemoryMB,
                                             remainingCapacity.MemoryMB,
                                             rem.failed, tot.failed)
              containerUsageMemoryMB ==
                  IF bulk.failed THEN -1
                  ELSE SumMebibytes(bulk.metrics, "MemoryUsageInBytes")
              containerUsageDiskMB ==
                  IF bulk.failed THEN -1
                  ELSE SumMebibytes(bulk.metrics, "DiskUsageInBytes")
              nContainers == IF list.failed THEN -1 ELSE Len(list.containers)
              startingCount == IF list.failed THEN 0 ELSE CountStarting(list.containers)
          IN  repLog' =
                 <<RepCall("RemainingResources", "", 0, rem.res, rem.failed)>> \o
                 (IF rem.failed THEN <<LoggedError("failed-remaining-resources")>>
                  ELSE <<>>) \o
                 <<RepCall("TotalResources", "", 0, tot.res, tot.failed)>> \o
                 (IF tot.failed THEN <<LoggedError("failed-total-resources")>> ELSE <<>>) \o
                 <<RepCall("GetBulkMetrics", "", 0, NoResources, bulk.failed)>> \o
                 (IF bulk.failed THEN <<LoggedError("failed-bulk-metrics")>> ELSE <<>>) \o
                 <<RepCall("ListContainers", "", 0, NoResources, list.failed)>> \o
                 (IF list.failed THEN <<LoggedError("failed-to-list-containers")>>
                  ELSE <<>>) \o
                 Send("SendMebiBytes", totalMemory, totalCapacity.MemoryMB, failing,
                      "failed-to-send-total-memory-metric") \o
                 Send("SendMebiBytes", totalDisk, totalCapacity.DiskMB, failing,
                      "failed-to-send-total-disk-metric") \o
                 Send("SendMetric", totalContainers, totalCapacity.Containers, failing,
                      "failed-to-send-total-container-metric") \o
                 Send("SendMebiBytes", remainingMemory, remainingCapacity.MemoryMB, failing,
                      "failed-to-send-remaining-memory-metric") \o
                 Send("SendMebiBytes", remainingDisk, remainingCapacity.DiskMB, failing,
                      "failed-to-send-remaining-disk-metric") \o
                 Send("SendMetric", remainingContainers, remainingCapacity.Containers,
                      failing, "failed-to-send-remaining-containers-metric") \o
                 Send("SendMebiBytes", allocatedMemory, allocatedMemoryMB, failing,
                      "failed-to-send-allocated-memory-metric") \o
                 Send("SendMebiBytes", allocatedDisk, allocatedDiskMB, failing,
                      "failed-to-send-allocated-disk-metric") \o
                 Send("SendMebiBytes", containerUsageMemory, containerUsageMemoryMB,
                      failing, "failed-to-send-container-memory-metric") \o
                 Send("SendMebiBytes", containerUsageDisk, containerUsageDiskMB, failing,
                      "failed-to-send-container-disk-metric") \o
                 Send("SendMetric", containerCount, nContainers, failing,
                      "failed-to-send-container-count-metric") \o
                 Send("SendMetric", startingContainerCount, startingCount, failing,
                      "failed-to-send-starting-container-count-metric")
    /\ repTimer' = [state |-> "armed", d |-> Interval, arms |-> repTimer.arms + 1]
    /\ UNCHANGED <<repPc, repSignals, repSent, repFires, repReady, repResult, repOther>>

\* Interval elapses: the timer's channel becomes readable
RepTimerFire ==
    /\ repTimer.state = "armed"
    /\ repFires < MaxReports
    /\ repTimer' = [repTimer EXCEPT !.state = "fired"]
    /\ repFires' = repFires + 1
    /\ UNCHANGED <<repPc, repSignals, repSent, repReady, repResult, repLog, repOther>>

\* the lifecycle engine signals the reporter
RepSignal ==
    /\ repSent < MaxStepSignals
    /\ repSignals' = repSignals + 1
    /\ repSent' = repSent + 1
    /\ UNCHANGED <<repPc, repTimer, repFires, repReady, repResult, repLog, repOther>>

NextReporter ==
    \/ RepCloseReady
    \/ RepNewTimer
    \/ RepSignalled
    \/ RepReport
    \/ RepTimerFire
    \/ RepSignal

SpecReporter == InitReporter /\ [][NextReporter]_vars

(***************************************************************************)
(* C9: calculateCredentialRotationPeriod(v) is v - 30 minutes for every    *)
(* v > 4 hours and v - v/8, with the eighth truncated toward zero, for     *)
(* every v <= 4 hours; 24h gives 23h30m, 1h gives 52m30s and exactly 4h    *)
(* gives 3h30m.  The difference v - result is characterised here without   *)
(* the subtraction and division the function uses: result + 30m = v, or    *)
(* result + e = v for the e of v's sign with 8|e| <= |v| < 8|e| + 8.       *)
(***************************************************************************)
IsTruncatedEighth(e, v) ==
    /\ e.neg = (v.neg /\ e.mag # MagZero)
    /\ ~MagLT(v.mag, MagMul(8, e.mag))
    /\ MagLT(v.mag, MagAdd(MagMul(8, e.mag), <<0, 0, 8>>))

RotationPeriodPolicy ==
    rpPc = "ret" =>
        /\ DurGT(rpIn, DurMul(4, Hour)) => DurAdd(rpOut, DurMul(30, Minute)) = rpIn
        /\ ~DurGT(rpIn, DurMul(4, Hour)) =>
              \E e \in { DurSub(rpIn, rpOut) } :
                  IsTruncatedEighth(e, rpIn) /\ DurAdd(rpOut, e) = rpIn
        /\ rpIn = DurMul(24, Hour) => rpOut = DurAdd(DurMul(23, Hour), DurMul(30, Minute))
        /\ rpIn = Hour => rpOut = DurAdd(DurMul(52, Minute), DurMul(30, Second))
        /\ rpIn = DurMul(4, Hour) => rpOut = DurAdd(DurMul(3, Hour), DurMul(30, Minute))

\* witness of C9: the 1h example has been computed by the eighth rule
RotationPeriodPolicyWitness ==
    /\ rpPc = "ret"
    /\ rpIn = Hour
    /\ rpOut = DurAdd(DurMul(52, Minute), DurMul(30, Second))

(***************************************************************************)
(* C10: for every validity period the manager can be constructed with,    *)
(* the rotation interval is strictly less than the validity period.       *)
(***************************************************************************)
RotationBeforeExpiry ==
    rpPc = "ret" => DurLT(rpOut, rpIn)

(***************************************************************************)
(* Reading the collaborators' call log.                                    *)
(***************************************************************************)
Updates(c)  == SelectSeq(log, LAMBDA e : e.op = "Update" /\ e.cycle = c)
Closes      == SelectSeq(log, LAMBDA e : e.op = "Close")
Gens        == SelectSeq(log, LAMBDA e : e.op = "generateCreds")
Positions(op) == { i \in DOMAIN log : log[i].op = op }

\* the loop has taken a signal off the signals channel
SignalReceived == signals < sent

\* handlers 1..Len(s), each once, in registration order
InRegistrationOrder(s) == \A i \in DOMAIN s : s[i].h = i

(***************************************************************************)
(* C1 as stated: when a shutdown signal is received in steady state,       *)
(* Close is called exactly once on every registered handler, each time     *)
(* with Credentials whose common name is the empty string, and the loop    *)
(* returns nil.                                                            *)
(***************************************************************************)
ShutdownAlwaysClosesHandlers ==
    (pc = "done" /\ SignalReceived) =>
        /\ result = NilErr
        /\ Len(Closes) = NumHandlers
        /\ InRegistrationOrder(Closes)
        /\ \A i \in DOMAIN Closes : CommonNames(Closes[i].creds) = {""}

(***************************************************************************)
(* C1 amended: when a shutdown signal is received in steady state and the  *)
(* invalidation credentials are generated, Close is called exactly once on *)
(* every registered handler, each time with Credentials whose common name  *)
(* is the empty string, and the loop returns nil; when that generation     *)
(* fails no handler's Close is called and the loop returns the generation  *)
(* error.  No handler is ever closed twice.                                *)
(***************************************************************************)
ShutdownClosesHandlersIfGenerated ==
    /\ \A h \in Handlers : Cardinality({ i \in Positions("Close") : log[i].h = h }) <= 1
    /\ (pc = "done" /\ SignalReceived) =>
          LET g == Gens[Len(Gens)]
          IN  IF g.ret = NilErr
              THEN /\ result = NilErr
                   /\ Len(Closes) = NumHandlers
                   /\ InRegistrationOrder(Closes)
                   /\ \A i \in DOMAIN Closes :
                         /\ CommonNames(Closes[i].creds) = {""}
                         /\ Closes[i].cycle = g.cycle
              ELSE /\ result = g.ret
                   /\ Len(Closes) = 0

\* witness of C1: a signal taken in steady state, after a rotation, and
\* every handler closed with the empty common name
ShutdownClosesHandlersWitness ==
    /\ pc = "done"
    /\ SignalReceived
    /\ ready = 1
    /\ rotations > 0
    /\ result = NilErr
    /\ Len(Closes) = NumHandlers
    /\ \A i \in DOMAIN Closes : CommonNames(Closes[i].creds) = {""}

(***************************************************************************)
(* C2: the loop closes ready at most once per run, and only after the      *)
(* initial generation succeeded, every handler's Update returned nil for   *)
(* the initial credentials and the rotation timer was armed; a run that    *)
(* ends before that point never closes ready.                              *)
(***************************************************************************)
ReadyOnlyAfterInitialIssuance ==
    /\ ready <= 1
    /\ Cardinality(Positions("close(ready)")) = ready
    /\ \A r \in Positions("close(ready)") :
          /\ Gens[1].cycle = 1 /\ Gens[1].ret = NilErr
          /\ Len(Updates(1)) = NumHandlers
          /\ InRegistrationOrder(Updates(1))
          /\ \A i \in DOMAIN Updates(1) : Updates(1)[i].ret = NilErr
          /\ \A i \in Positions("Update") : log[i].cycle = 1 => i < r
          /\ \E t \in Positions("NewTimer") : t < r
          /\ timer.state # "unset" /\ timer.arms >= 1
    /\ (pc = "done" /\ (timer.arms = 0 \/ \E i \in DOMAIN Updates(1) :
                                            Updates(1)[i].ret # NilErr))
          => ready = 0

\* witness of C2: ready closed after a complete initial issuance
ReadyOnlyAfterInitialIssuanceWitness ==
    /\ ready = 1
    /\ pc = "select"
    /\ Len(Updates(1)) = NumHandlers
    /\ timer.state = "armed"

(***************************************************************************)
(* C3: if the initial generation fails, the failure counter is incremented *)
(* exactly once, the success counter is not incremented, the loop returns  *)
(* that generation error at once, ready is never closed, no timer is armed *)
(* and generation is not retried.                                          *)
(***************************************************************************)
InitialGenerationFailureIsFatal ==
    (Len(Gens) >= 1 /\ Gens[1].ret # NilErr) =>
        /\ pc = "done"
        /\ result = Gens[1].ret
        /\ metrics = [succeeded |-> 0, failed |-> 1, durations |-> 0]
        /\ Cardinality(Positions(CredCreationFailedCount)) = 1
        /\ Positions(CredCreationSucceededCount) = {}
        /\ ready = 0
        /\ timer = TimerUnset
        /\ Len(Gens) = 1 /\ cycle = 1
        /\ Positions("Update") = {} /\ Positions("Close") = {}

\* witness of C3: the initial generation failed in its second certificate
InitialGenerationFailureWitness ==
    /\ Len(Gens) = 1
    /\ Gens[1].ret = GenErr(2)
    /\ pc = "done"

(***************************************************************************)
(* C4: in every Update fan-out (initial issuance and each rotation) the    *)
(* handlers are invoked one after the other in registration order with the *)
(* cycle's credentials; if handler k's Update returns an error the loop    *)
(* returns exactly that error, handlers 1..k were invoked once each in     *)
(* that cycle, no later handler is invoked and no further call (rollback,  *)
(* Close) follows.                                                         *)
(***************************************************************************)
UpdateFanOutStopsAtFirstError ==
    \A c \in 1..cycle :
        LET u == Updates(c)
        IN  /\ Len(u) <= NumHandlers
            /\ InRegistrationOrder(u)
            /\ \A i \in DOMAIN u :
                  /\ u[i].creds = u[1].creds /\ u[i].container = u[1].container
                  /\ u[i].ret # NilErr =>
                        /\ i = Len(u)
                        /\ pc = "done"
                        /\ result = u[i].ret
                        /\ log[Len(log)] = u[i]
            /\ (Len(u) > 0 /\ Len(u) < NumHandlers /\ u[Len(u)].ret = NilErr)
                  => (pc \in {"initUpdate", "rotUpdate"} /\ idx = Len(u) + 1 /\ c = cycle)

\* witness of C4: in a rotation the last handler's Update failed after the
\* handlers before it were updated
UpdateFanOutStopsWitness ==
    /\ pc = "done"
    /\ cycle = 2
    /\ result = UpdateErr(NumHandlers)
    /\ Len(Updates(2)) = NumHandlers
    /\ Updates(2)[1].ret = NilErr

(***************************************************************************)
(* C5: in any cycle (initial issuance or rotation) in which credential     *)
(* generation fails, no handler's Update is invoked.                       *)
(***************************************************************************)
NoUpdateAfterFailedGeneration ==
    \A i \in DOMAIN Gens : Gens[i].ret # NilErr => Updates(Gens[i].cycle) = <<>>

\* witness of C5: a rotation whose generation failed, after an initial
\* issuance that updated every handler
NoUpdateAfterFailedGenerationWitness ==
    /\ Len(Gens) = 2
    /\ Gens[2].ret # NilErr
    /\ ~SignalReceived
    /\ Len(Updates(1)) = NumHandlers
    /\ Updates(2) = <<>>

(***************************************************************************)
(* C6: if generation fails during a steady-state rotation, the failure     *)
(* counter is incremented, the loop returns that error, the timer is not   *)
(* re-armed and no further generation is attempted.                        *)
(***************************************************************************)
RotationFailed ==
    /\ Len(Gens) >= 2
    /\ Gens[Len(Gens)].ret # NilErr
    /\ ~SignalReceived

RotationGenerationFailureIsFatal ==
    /\ \A i \in DOMAIN Gens : Gens[i].ret # NilErr => i = Len(Gens)
    /\ RotationFailed =>
          /\ pc = "done"
          /\ result = Gens[Len(Gens)].ret
          /\ metrics.failed = 1
          /\ metrics.succeeded = Len(Gens) - 1
          /\ log[Len(log)] = Metric(CredCreationFailedCount, cycle)
          /\ cycle = Len(Gens)
          /\ timer.state = "drained"
          /\ timer.arms = Len(Gens) - 1

\* witness of C6: the second rotation's generation failed
RotationGenerationFailureWitness ==
    /\ RotationFailed
    /\ Len(Gens) = 3
    /\ ready = 1

(***************************************************************************)
(* C7 as stated: in every run in which the loop receives a shutdown        *)
(* signal, it generates empty-identifier credentials, calls Close on every *)
(* handler and returns no error.                                           *)
(***************************************************************************)
CancellationNeverReturnsError ==
    (pc = "done" /\ SignalReceived) =>
        /\ result = NilErr
        /\ Gens[Len(Gens)].ret = NilErr
        /\ \A h \in Handlers : \E i \in Positions("Close") : log[i].h = h

(***************************************************************************)
(* C7 amended: a shutdown signal is received only in steady state; the     *)
(* loop then starts no further rotation or Update, generates credentials   *)
(* with the empty identifier and, if that generation succeeds, calls Close *)
(* on every handler and returns nil; it returns an error after receiving   *)
(* the signal only when that generation itself fails, and then the error   *)
(* is the generation error, counted in the failure counter, and no Close   *)
(* is called.                                                              *)
(***************************************************************************)
CancellationTakesInvalidationPath ==
    SignalReceived =>
        LET g == Gens[Len(Gens)]
        IN  /\ ready = 1
            /\ g.cycle = cycle /\ cycle >= 2
            /\ g.ret = NilErr => CommonNames(g.creds) = {""}
            /\ \A i \in DOMAIN log : log[i].cycle = g.cycle =>
                  log[i].op \in {"Info", "generateCreds", "Close", CredCreationFailedCount}
            /\ \A i \in Positions("Close") : log[i].creds = g.creds
            /\ result.kind \in {"running", "nil", "generate"}
            /\ pc = "done" =>
                  IF g.ret = NilErr
                  THEN /\ result = NilErr
                       /\ \A h \in Handlers : \E i \in Positions("Close") : log[i].h = h
                  ELSE /\ result = g.ret
                       /\ metrics.failed = 1
                       /\ Positions("Close") = {}

\* witness of C7: a signal taken before any rotation ends the run through
\* the Close fan-out
CancellationWitness ==
    /\ pc = "done"
    /\ SignalReceived
    /\ result = NilErr
    /\ rotations = 0
    /\ Len(Closes) = NumHandlers
    /\ CommonNames(Gens[Len(Gens)].creds) = {""}

(***************************************************************************)
(* C8: during shutdown invalidation an error returned by a handler's Close *)
(* is not propagated and does not stop the fan-out: every handler's Close  *)
(* is still called, in registration order, and the loop returns nil.       *)
(***************************************************************************)
CloseErrorsNotPropagated ==
    /\ InRegistrationOrder(Closes)
    /\ Len(Closes) <= NumHandlers
    /\ (Len(Closes) > 0 /\ Len(Closes) < NumHandlers) =>
          (pc = "close" /\ idx = Len(Closes) + 1)
    /\ (pc = "done" /\ Len(Closes) > 0) =>
          (Len(Closes) = NumHandlers /\ result = NilErr)

\* witness of C8: the first handler's Close failed, the others were still
\* closed and the loop returned nil
CloseErrorsNotPropagatedWitness ==
    /\ pc = "done"
    /\ Len(Closes) = NumHandlers
    /\ Closes[1].ret = CloseErr(1)
    /\ result = NilErr

(***************************************************************************)
(* C11 as stated: when the rotation timer fires after the initial          *)
(* issuance, the second Credentials value handed to the handlers has a     *)
(* generation GUID (common name) different from the first one's.           *)
(***************************************************************************)
RotationChangesCommonName ==
    (Len(Updates(1)) > 0 /\ Len(Updates(2)) > 0) =>
        CommonNames(Updates(2)[1].creds) \cap CommonNames(Updates(1)[1].creds) = {}

(***************************************************************************)
(* C11 amended: when the rotation timer fires after the initial issuance,  *)
(* a second Credentials value with a new validity window is generated and, *)
(* unless its generation or a handler's Update fails, handed to all        *)
(* handlers; its common name is the Guid of the container snapshot fetched *)
(* for that cycle, the same as the first value's.                          *)
(***************************************************************************)
RotationKeepsContainerGuid ==
    \A c \in 2..cycle :
        LET u == Updates(c)
        IN  /\ \A i \in DOMAIN u :
                  /\ CommonNames(u[i].creds) = {u[i].container.Guid}
                  /\ CommonNames(u[i].creds) = CommonNames(Updates(1)[1].creds)
                  /\ u[i].creds # Updates(1)[1].creds
                  /\ \E j \in DOMAIN Gens :
                        Gens[j].cycle = c /\ Gens[j].ret = NilErr /\ Gens[j].creds = u[i].creds
            /\ (\E r \in Positions("Reset") : log[r].cycle = c) =>
                  (Len(u) = NumHandlers /\ \A i \in DOMAIN u : u[i].ret = NilErr)

\* witness of C11: a rotation handed its Credentials to every handler
RotationKeepsContainerGuidWitness ==
    /\ \E r \in Positions("Reset") : log[r].cycle = 2
    /\ Len(Updates(2)) = NumHandlers
    /\ CommonNames(Updates(2)[1].creds) = {"instance-guid"}

(***************************************************************************)
(* C12: every Credentials value passed to a handler holds two credentials  *)
(* (instance identity and C2C) whose certificates carry the same           *)
(* generation identifier as common name; the identifier is non-empty in    *)
(* every Credentials passed to Update and empty in every Credentials       *)
(* passed to Close.                                                        *)
(***************************************************************************)
HandlersGetOneIdentifier ==
    \A i \in DOMAIN log :
        log[i].op \in {"Update", "Close"} =>
            LET id  == log[i].creds.InstanceIdentityCredential
                c2c == log[i].creds.C2CCredential
            IN  /\ Len(id.Cert) = 2 /\ Len(c2c.Cert) = 2
                /\ id.Cert[1].CommonName = c2c.Cert[1].CommonName
                /\ log[i].op = "Update" => id.Cert[1].CommonName # ""
                /\ log[i].op = "Close" => id.Cert[1].CommonName = ""

\* witness of C12: handlers were updated in a rotation and then closed
HandlersGetOneIdentifierWitness ==
    /\ Len(Updates(2)) = NumHandlers
    /\ Len(Closes) = NumHandlers
    /\ Closes[1].creds.C2CCredential.Cert[1].CommonName = ""
    /\ Updates(2)[1].creds.C2CCredential.Cert[1].CommonName = "instance-guid"

(***************************************************************************)
(* C13: RemoveCredDir calls RemoveDir on every registered handler exactly  *)
(* once, in order, whichever handlers fail; it returns nil exactly when    *)
(* every handler succeeded, and otherwise one error whose message is the   *)
(* failing handlers' error texts, in handler order, joined by "; ".        *)
(***************************************************************************)
RECURSIVE FailureTexts(_)
\* the error texts of the failed calls of a call sequence, joined by "; "
FailureTexts(calls) ==
    IF calls = <<>> THEN <<>>
    ELSE LET rest == FailureTexts(Tail(calls))
         IN  IF Head(calls).err.isNil THEN rest
             ELSE IF rest = <<>> THEN Head(calls).err.text
             ELSE Head(calls).err.text \o <<"; ">> \o rest

RemoveCredDirAggregates ==
    dirPc = "removed" =>
        /\ Len(dirCalls) = NumHandlers
        /\ \A k \in Handlers : dirCalls[k].op = "RemoveDir" /\ dirCalls[k].h = k
        /\ dirRet.err.isNil <=> (\A k \in Handlers : dirCalls[k].err.isNil)
        /\ ~dirRet.err.isNil => dirRet.err.text = FailureTexts(dirCalls)

\* witness of C13: the first handler failed, the last one was still called
\* and failed too, and both texts are in the returned message
RemoveCredDirAggregatesWitness ==
    /\ dirPc = "removed"
    /\ ~dirCalls[1].err.isNil
    /\ ~dirCalls[NumHandlers].err.isNil
    /\ Len(dirRet.err.text) >= 7
    /\ dirRet.err.text[4] = "; "

(***************************************************************************)
(* C14: CreateCredDir calls CreateDir on the handlers in registration      *)
(* order and fails fast: at the first handler error it returns that error  *)
(* with no mounts and no environment variables and calls no later handler; *)
(* when all handlers succeed it returns the concatenation of every         *)
(* handler's mounts and of every handler's environment variables, in       *)
(* handler order.                                                          *)
(***************************************************************************)
RECURSIVE AllMounts(_)
AllMounts(calls) ==
    IF calls = <<>> THEN <<>> ELSE Head(calls).mounts \o AllMounts(Tail(calls))

RECURSIVE AllEnvs(_)
AllEnvs(calls) ==
    IF calls = <<>> THEN <<>> ELSE Head(calls).envs \o AllEnvs(Tail(calls))

CreateCredDirFailsFast ==
    /\ dirPc \in {"create", "created"} =>
          \A k \in DOMAIN dirCalls :
              /\ dirCalls[k].op = "CreateDir" /\ dirCalls[k].h = k
              /\ k < Len(dirCalls) => dirCalls[k].err.isNil
    /\ dirPc = "created" =>
          LET last == dirCalls[Len(dirCalls)]
          IN  IF \E k \in DOMAIN dirCalls : ~dirCalls[k].err.isNil
              THEN /\ dirRet.err = last.err
                   /\ dirRet.mounts = <<>>
                   /\ dirRet.envs = <<>>
              ELSE /\ Len(dirCalls) = NumHandlers
                   /\ dirRet.err.isNil
                   /\ dirRet.mounts = AllMounts(dirCalls)
                   /\ dirRet.envs = AllEnvs(dirCalls)

\* witness of C14, failing case: the first handler produced mounts and
\* environment variables, the next one failed
CreateCredDirFailsFastWitness ==
    /\ dirPc = "created"
    /\ Len(dirCalls) = 2
    /\ Len(dirCalls[1].mounts) = 2 /\ Len(dirCalls[1].envs) = 1
    /\ ~dirRet.err.isNil

(***************************************************************************)
(* C15: once the loop has signaled readiness, a delivered shutdown signal  *)
(* eventually makes the loop return, also when the rotation timer is ready *)
(* to fire at the same time; the loop does not keep rotating with a signal *)
(* pending.                                                                *)
(***************************************************************************)
SignalEventuallyReturns ==
    (ready = 1 /\ signals > 0) ~> (pc = "done")

\* witness of C15: the timer's channel and the signal channel were readable
\* together, the signal was taken and the loop has returned
SignalEventuallyReturnsWitness ==
    /\ pc = "done"
    /\ ready = 1
    /\ sent > 0 /\ signals = 0
    /\ timer.state = "fired"
    /\ Len(Closes) = NumHandlers

(***************************************************************************)
(* C16: node.Info() is called exactly once in every generation cycle       *)
(* (initial issuance, each rotation, the shutdown invalidation); the       *)
(* credentials generated in a cycle and the container passed to handlers   *)
(* in that cycle come from that cycle's snapshot, which is the container's *)
(* metadata as it is when the cycle starts, never an earlier cycle's.      *)
(***************************************************************************)
InCycle(op, c) == { i \in DOMAIN log : log[i].op = op /\ log[i].cycle = c }

\* the certificates of cr carry the addresses and routes of snapshot
FromSnapshot(cr, snapshot) ==
    /\ cr.InstanceIdentityCredential.Cert[1].IPAddresses =
          (IF snapshot.InternalIP # "" THEN <<[ip |-> snapshot.InternalIP]>>
           ELSE IF snapshot.ExternalIP # "" THEN <<[ip |-> snapshot.ExternalIP]>>
           ELSE <<>>)
    /\ Tail(cr.C2CCredential.Cert[1].DNSNames) =
          [k \in DOMAIN snapshot.InternalRoutes |-> snapshot.InternalRoutes[k].Hostname]

SnapshotPerCycleInv ==
    \A c \in 1..cycle :
        /\ Cardinality(InCycle("Info", c)) = 1
        /\ Cardinality(InCycle("generateCreds", c)) = 1
        /\ \A i \in InCycle("Info", c) :
              /\ \A g \in InCycle("generateCreds", c) :
                    /\ i < g
                    /\ log[g].container = log[i].container
                    /\ log[g].ret = NilErr => FromSnapshot(log[g].creds, log[i].container)
              /\ \A u \in InCycle("Update", c) \cup InCycle("Close", c) :
                    /\ log[u].container = log[i].container
                    /\ FromSnapshot(log[u].creds, log[i].container)

SnapshotPerCycle ==
    /\ []SnapshotPerCycleInv
    /\ [][cycle' # cycle =>
             /\ cycle' = cycle + 1
             /\ container' = nodeInfo
             /\ \A i \in InCycle("Info", cycle + 1)' : log'[i].container = nodeInfo]_vars

\* witness of C16: the metadata changed after the initial issuance and a
\* rotation handed the new snapshot and credentials made from it to every
\* handler
SnapshotPerCycleWitness ==
    /\ Len(Updates(1)) = NumHandlers
    /\ Len(Updates(2)) = NumHandlers
    /\ Updates(2)[1].container # Updates(1)[1].container
    /\ Updates(2)[1].container.InternalRoutes # <<>>
    /\ FromSnapshot(Updates(2)[NumHandlers].creds, Updates(2)[1].container)

(***************************************************************************)
(* C17: in every successful rotation cycle all handlers' Update calls of   *)
(* the cycle complete before the rotation timer is re-armed; the timer is  *)
(* re-armed exactly once per successful rotation, with                     *)
(* calculateCredentialRotationPeriod(validityPeriod); and no generation    *)
(* starts while an earlier cycle's generation or fan-out is in progress.   *)
(***************************************************************************)
\* every handler's Update of cycle c has returned nil
FanOutSucceeded(c) ==
    LET u == Updates(c)
    IN  /\ Len(u) = NumHandlers
        /\ \A k \in DOMAIN u : u[k].h = k /\ u[k].ret = NilErr

\* the rotation period of the validity periods the loop is run with
ExpectedRotationPeriod ==
    IF validityPeriod = Hour
    THEN DurAdd(DurMul(52, Minute), DurMul(30, Second))
    ELSE DurAdd(DurMul(23, Hour), DurMul(30, Minute))

RearmAfterFanOut ==
    \* a re-arm follows the whole fan-out of its cycle, a rotation
    /\ \A r \in Positions("Reset") :
          /\ log[r].cycle >= 2
          /\ FanOutSucceeded(log[r].cycle)
          /\ \A u \in InCycle("Update", log[r].cycle) : u < r
          /\ InCycle("Reset", log[r].cycle) = {r}
    \* every successful rotation re-arms, as the loop's next step at the latest
    /\ \A c \in 2..cycle :
          (FanOutSucceeded(c) /\ InCycle("Reset", c) = {}) => (pc = "reset" /\ cycle = c)
    \* the timer is created once and armed with the rotation period each time
    /\ timer.arms = Cardinality(Positions("NewTimer")) + Cardinality(Positions("Reset"))
    /\ Cardinality(Positions("NewTimer")) <= 1
    /\ timer.state # "unset" => timer.d = ExpectedRotationPeriod
    \* cycles do not overlap: a cycle's calls all precede the next cycle's,
    \* and a cycle starts only after the one before it went through
    /\ \A i \in 1..(Len(log) - 1) : log[i].cycle <= log[i + 1].cycle
    /\ \A c \in 1..(cycle - 1) :
          /\ FanOutSucceeded(c)
          /\ c = 1 => Cardinality(InCycle("NewTimer", c)) = 1
          /\ c > 1 => Cardinality(InCycle("Reset", c)) = 1

\* witness of C17: two rotations went through, each re-arming the timer
RearmAfterFanOutWitness ==
    /\ cycle = 3
    /\ Cardinality(Positions("Reset")) = 2
    /\ timer.arms = 3
    /\ timer.state = "armed"
    /\ FanOutSucceeded(2) /\ FanOutSucceeded(3)

(***************************************************************************)
(* C18: in the initial issuance and in every rotation cycle the success    *)
(* counter (CredCreationSucceededCount) and the generation duration are    *)
(* emitted only after every handler's Update of that cycle has returned    *)
(* successfully; a cycle aborted by a handler Update error emits no        *)
(* success metric.                                                         *)
(***************************************************************************)
SuccessMetricsAfterFanOut ==
    \A m \in Positions(CredCreationSucceededCount) \cup
             Positions(CredCreationSucceededDuration) :
        /\ FanOutSucceeded(log[m].cycle)
        /\ \A u \in InCycle("Update", log[m].cycle) : u < m

(***************************************************************************)
(* C19: for every container snapshot and generation identifier g, the      *)
(* instance-identity certificate has common name g, IP SAN {InternalIP}    *)
(* if InternalIP is non-empty, else {ExternalIP} if that is non-empty,     *)
(* else none, and DNS SAN list [g]; the C2C certificate has common name g, *)
(* no IP SAN, and DNS SAN list [g] followed by the hostname of each        *)
(* internal route in order; both have notAfter = notBefore +               *)
(* validityPeriod.                                                         *)
(***************************************************************************)
ValidFor(cert, d) ==
    /\ cert.NotAfter.tick = cert.NotBefore.tick
    /\ DurSub(cert.NotAfter.plus, cert.NotBefore.plus) = d

CertificateContents ==
    gcPc = "ret" =>
        LET id  == gcOut.InstanceIdentityCredential.Cert[1]
            c2c == gcOut.C2CCredential.Cert[1]
        IN  /\ id.CommonName = gcGuid
            /\ id.IPAddresses =
                  (IF gcIn.InternalIP # "" THEN <<[ip |-> gcIn.InternalIP]>>
                   ELSE IF gcIn.ExternalIP # "" THEN <<[ip |-> gcIn.ExternalIP]>>
                   ELSE <<>>)
            /\ id.DNSNames = <<gcGuid>>
            /\ c2c.CommonName = gcGuid
            /\ c2c.IPAddresses = <<>>
            /\ c2c.DNSNames = <<gcGuid>> \o
                  [k \in DOMAIN gcIn.InternalRoutes |-> gcIn.InternalRoutes[k].Hostname]
            /\ ValidFor(id, validityPeriod)
            /\ ValidFor(c2c, validityPeriod)

\* witness of C19: a snapshot with only an external address and two internal
\* routes was turned into credentials
CertificateContentsWitness ==
    /\ gcPc = "ret"
    /\ gcIn.InternalIP = "" /\ gcIn.ExternalIP = "192.168.1.1"
    /\ gcIn.InternalRoutes = <<Route("b.apps.internal"), Route("a.apps.internal")>>
    /\ gcGuid = "generation-guid"
    /\ gcOut.InstanceIdentityCredential.Cert[1].IPAddresses = <<[ip |-> "192.168.1.1"]>>
    /\ Len(gcOut.C2CCredential.Cert[1].DNSNames) = 3

(***************************************************************************)
(* C20: within one run of the loop every handler Update call precedes      *)
(* every handler Close call, each handler's Close is called at most once,  *)
(* Close is called only after a shutdown signal was received, and after    *)
(* the loop function has returned no handler method is invoked by the run. *)
(***************************************************************************)
HandlerCalls == Positions("Update") \cup Positions("Close")

UpdatesThenCloses ==
    /\ [](/\ \A u \in Positions("Update"), k \in Positions("Close") : u < k
          /\ \A h \in Handlers :
                Cardinality({ k \in Positions("Close") : log[k].h = h }) <= 1
          /\ Positions("Close") # {} => SignalReceived)
    /\ [][pc = "done" => HandlerCalls' = HandlerCalls /\ pc' = "done"]_vars

\* witness of C20: handlers were updated in two cycles, a signal was taken,
\* every handler was closed and the loop has returned
UpdatesThenClosesWitness ==
    /\ pc = "done"
    /\ result = NilErr
    /\ Len(Updates(1)) = NumHandlers /\ Len(Updates(2)) = NumHandlers
    /\ Len(Closes) = NumHandlers
    /\ InRegistrationOrder(Closes)

(***************************************************************************)
(* C21: readinessHealthCheckStep.Run starts the supplied until-ready check *)
(* runner exactly once per Run, after writing "Starting readiness health   *)
(* monitoring of container" to the log streamer's stdout.                  *)
(***************************************************************************)
RsCount(e) == Cardinality({ i \in DOMAIN rsLog : rsLog[i] = e })

ReadinessCheckStartedOnce ==
    /\ RsCount("Background(untilReadyCheck)") <= 1
    /\ RsCount("untilReadyCheck.Run") = rsCheck.runs
    /\ rsCheck.runs <= 1
    /\ RsCount(StartingReadinessMessage) <= 1
    \* the check is started once Run is past line 40, and not before the message
    /\ rsPc \notin {"start", "background"} =>
          /\ Len(rsLog) >= 2
          /\ rsLog[1] = StartingReadinessMessage
          /\ rsLog[2] = "Background(untilReadyCheck)"
    \* Run gets past its select only with a check that has run
    /\ rsPc \in {"closeReady", "spin", "done"} => rsCheck.runs = 1

\* witness of C21: the check was started, ran and exited, and Run went on
ReadinessCheckStartedOnceWitness ==
    /\ rsPc = "spin"
    /\ rsCheck.runs = 1
    /\ rsLog[1] = StartingReadinessMessage
    /\ rsLog[3] = "untilReadyCheck.Run"

(***************************************************************************)
(* C22: a signal delivered to readinessHealthCheckStep.Run, whether before *)
(* or after it has closed ready, eventually causes Run to return.          *)
(***************************************************************************)
ReadinessSignalEventuallyReturns ==
    (rsSent > 0) ~> (rsPc = "done")

(***************************************************************************)
(* C23: healthCheckStep.Run closes ready only if the startup check exited  *)
(* with a nil error; if the startup check exits with an error Run returns  *)
(* an emittable error without closing ready; if a signal arrives before    *)
(* the startup check exits Run forwards the signal to the startup check,   *)
(* waits for it to exit, and returns CancelledError without closing ready  *)
(* and without ever starting the liveness check.                           *)
(***************************************************************************)
HcDid(e) == \E i \in DOMAIN hcLog : hcLog[i] = e

ReadyOnlyAfterStartupPassed ==
    /\ hcReady <= 1
    /\ hcReady = 1 <=> HcDid("close(ready)")
    /\ hcReady = 1 => (hcStartup.state = "exited" /\ hcStartup.err = "nil")
    \* the startup check failed: ready stays open and Run, unless cancelled,
    \* returns the emittable error
    /\ (hcPc = "done" /\ hcStartup.err # "nil") =>
          /\ hcReady = 0
          /\ hcLiveness = NoProcess
          /\ hcResult \in {TimeoutCrash, CancelledError}
          /\ hcResult = CancelledError <=> HcDid("Signal(startupCheck)")
    \* the signal was taken before the startup check's exit
    /\ HcDid("Signal(startupCheck)") =>
          /\ hcStartup.signalled # <<>>
          /\ hcReady = 0
          /\ hcLiveness = NoProcess /\ hcWatcher = "none"
          /\ hcPc \in {"waitStartup", "done"}
          /\ hcPc = "done" => (hcResult = CancelledError /\ hcStartup.state = "exited")

\* witness of C23: the startup check failed and Run returned the emittable
\* error with ready still open
ReadyOnlyAfterStartupPassedWitness ==
    /\ hcPc = "done"
    /\ hcStartup.err = "startup timed out"
    /\ hcResult = TimeoutCrash
    /\ hcReady = 0

(***************************************************************************)
(* C24: after healthCheckStep.Run has returned, the goroutine it started   *)
(* to watch the liveness check is not left blocked forever: in every       *)
(* interleaving of liveness exit and signal delivery it terminates.        *)
(***************************************************************************)
WatcherTerminates ==
    (hcPc = "done") ~> (hcWatcher \in {"none", "done", "panicked"})

(***************************************************************************)
(* C25: metrics Reporter.Run closes ready immediately, returns nil on the  *)
(* first signal received at its wait point, and on every timer fire emits  *)
(* all twelve metrics and re-arms the timer with Interval, whatever errors *)
(* the executor source or the metric emission return; when                 *)
(* RemainingResources or TotalResources fails the allocated memory and     *)
(* disk metrics are reported as -1, otherwise as total minus remaining.    *)
(***************************************************************************)
\* the metrics sent in the latest timer case, in order
Sends == SelectSeq(repLog, LAMBDA e : e.op \in {"SendMebiBytes", "SendMetric"})
SourceCalls(op) == SelectSeq(repLog, LAMBDA e : e.op = op)

TwelveMetrics ==
    <<"CapacityTotalMemory", "CapacityTotalDisk", "CapacityTotalContainers",
      "CapacityRemainingMemory", "CapacityRemainingDisk", "CapacityRemainingContainers",
      "CapacityAllocatedMemory", "CapacityAllocatedDisk",
      "ContainerUsageMemory", "ContainerUsageDisk",
      "ContainerCount", "StartingContainerCount">>

ReporterAlwaysReports ==
    \* ready is closed first, once
    /\ repReady <= 1
    /\ repPc # "start" => repReady = 1
    /\ repTimer.state # "unset" => repReady = 1
    \* the first signal received ends Run with nil
    /\ repSent - repSignals <= 1
    /\ repPc = "done" <=> repSent - repSignals = 1
    /\ repPc = "done" <=> repResult = "nil"
    \* every fire is reported and followed by one re-arm with Interval
    /\ repTimer.state # "unset" => repTimer.d = DurMul(15000, Millisecond)
    /\ repTimer.state = "armed" => repTimer.arms = repFires + 1
    /\ repTimer.state = "fired" => repTimer.arms = repFires
    /\ repTimer.arms <= 1 <=> repLog = <<>>
    /\ repLog # <<>> =>
          LET rem == SourceCalls("RemainingResources")
              tot == SourceCalls("TotalResources")
              failed == rem[1].failed \/ tot[1].failed
          IN  /\ Len(rem) = 1 /\ Len(tot) = 1
              /\ Len(Sends) = 12
              /\ \A k \in 1..12 : Sends[k].name = TwelveMetrics[k]
              /\ Sends[7].value =
                    (IF failed THEN -1 ELSE tot[1].res.MemoryMB - rem[1].res.MemoryMB)
              /\ Sends[8].value =
                    (IF failed THEN -1 ELSE tot[1].res.DiskMB - rem[1].res.DiskMB)

\* witness of C25: every call of the source and every send failed, all twelve
\* metrics were sent and the timer was re-armed a second time
ReporterAlwaysReportsWitness ==
    /\ repTimer.arms = 3 /\ repTimer.state = "armed"
    /\ SourceCalls("RemainingResources")[1].failed
    /\ SourceCalls("TotalResources")[1].failed
    /\ SourceCalls("GetBulkMetrics")[1].failed
    /\ SourceCalls("ListContainers")[1].failed
    /\ Len(Sends) = 12
    /\ \A k \in 1..12 : Sends[k].failed
    /\ Sends[7].value = -1 /\ Sends[8].value = -1

====
